---- MODULE Spec2Model ----
(***************************************************************************)
(* A model of the turn pipeline of Python-RL: actions (actions.py), the    *)
(* combatant component (components/fighter.py), status effects             *)
(* (status_effect.py), enemy AI (components/ai.py), zones (entity.py,      *)
(* components/zone.py) and the orchestration of one turn (engine.py,       *)
(* input_handlers.py).                                                     *)
(*                                                                         *)
(* Every operation of the program is an operator from a world (a record    *)
(* holding the value of every variable) to the SET of worlds it can leave  *)
(* behind: random rolls are the only source of more than one outcome, and  *)
(* an operation that raises exceptions.Impossible leaves a world whose     *)
(* field raised is TRUE.  An action of the model runs one handler on the   *)
(* current world and installs one of its outcomes.                         *)
(***************************************************************************)
EXTENDS Integers, Sequences, FiniteSets, TLC

(***************************************************************************)
(* Bounds of the model.                                                    *)
(***************************************************************************)
\* The floor is MapWidth x MapHeight cells (main.py uses 80 x 43).
MapWidth == 4
MapHeight == 3
\* Turns the player may take before the model stops accepting input.
MaxTurns == 1
\* Calls the unit harness may make before it stops.
MaxCalls == 2
\* Largest duration and value of a status effect the unit harness applies,
\* and largest amount it heals or damages by.
MaxDuration == 4
MaxAmount == 2
MaxFightTurns == 2
MaxZoneTurns == 3
MaxSpawnerTurns == 2
MaxConfusedTurns == 2
MaxPathWidth == 5
MaxDeathTurns == 2
MaxPickupTurns == 2
MaxHuntTurns == 3
MaxSporeTurns == 2
MaxHeap == 13
MaxNitrousTurns == 13

(***************************************************************************)
(* Program constants.                                                      *)
(***************************************************************************)
\* random.randint(1, 100) of the dodge roll and of the credit roll.
RollSides == 100
SpawnRate == 8
SpawnReach == 3
SpawnTries == 10
FleeReach == 20
FleeTrigger == 5
\* roll <= 45 grants credits.
CreditChance == 45
\* Turns of confusion a nitrous oxide zone gives.
ConfusedTurns == 10
\* Crowding penalty of a blocking entity in the cost grid.
CrowdingCost == 10
\* Bits of an entry of the cost grid, an np.int8.
CostBits == 8
\* Step costs of the path finder.
CardinalCost == 2
DiagonalCost == 3
\* Radius of the field of view.
FovRadius == 8

Max(a, b) == IF a >= b THEN a ELSE b
Min(a, b) == IF a <= b THEN a ELSE b
Abs(a) == IF a >= 0 THEN a ELSE -a

(***************************************************************************)
(* The floor: tiles of game_map.py.  One wall stands at (1, 1); every      *)
(* other cell is floor.  A floor tile is walkable and transparent, a wall  *)
(* is neither (tile_types.py).                                             *)
(***************************************************************************)
Cells == (0 .. MapWidth - 1) \X (0 .. MapHeight - 1)
Walls == {<<1, 1>>}

in_bounds(px, py) == 0 <= px /\ px < MapWidth /\ 0 <= py /\ py < MapHeight

\* tiles["walkable"][x, y] for an in-bounds cell.
walkable(c) == c \notin Walls
\* tiles["transparent"][x, y] for an in-bounds cell.
transparent(c) == c \notin Walls

\* GameMap.is_walkable_tile: in bounds and walkable.
is_walkable_tile(px, py) == in_bounds(px, py) /\ walkable(<<px, py>>)

\* The eight directions of random.choice in ConfusedEnemy.perform and
\* Zone.on_update.
Directions == {d \in (-1 .. 1) \X (-1 .. 1) : d # <<0, 0>>}

(***************************************************************************)
(* Entities.  Ids are object identities; a slot whose template is "none"   *)
(* is an object that does not exist yet (Entity.spawn takes the first).    *)
(***************************************************************************)
Player == "player"
ActorSlots == <<"player", "a1", "a2", "n1">>
ActorIds == {ActorSlots[i] : i \in 1 .. Len(ActorSlots)}
ItemIds == {"i1"}
ZoneIds == {"z1", "z2"}
NpcIds == {"s1"}
Ids == ActorIds \cup ItemIds \cup ZoneIds \cup NpcIds

\* status_effect.py: the classes and the name each passes to StatusEffect.
EffectClasses == {"Poisoned", "Bleeding", "Spored"}
EffectName(c) == IF c = "Spored" THEN "full of spores" ELSE c
StatusEffect(c, d, v) == [cls |-> c, name |-> EffectName(c), duration |-> d, value |-> v]

\* entity_factories.py: the templates the model places.
ActorTemplates ==
    {"player", "slime_mold", "rusty_automaton", "hunter_humanoid", "baby_shroom",
     "acid_mold", "mama_mold"}
Fighter(t) ==
    CASE t = "player" ->
           [hp |-> 30, base_dodge |-> 5, base_power |-> 2, base_defence |-> 1,
            immune_effects |-> {}]
      [] t = "slime_mold" ->
           [hp |-> 10, base_dodge |-> 0, base_power |-> 3, base_defence |-> 0,
            immune_effects |-> {}]
      [] t = "rusty_automaton" ->
           [hp |-> 16, base_dodge |-> 4, base_power |-> 4, base_defence |-> 1,
            immune_effects |-> {"Poisoned", "Bleeding"}]
      [] t = "hunter_humanoid" ->
           [hp |-> 20, base_dodge |-> 10, base_power |-> 7, base_defence |-> 1,
            immune_effects |-> {}]
      [] t = "acid_mold" ->
           [hp |-> 19, base_dodge |-> 5, base_power |-> 6, base_defence |-> 2,
            immune_effects |-> {"Poisoned"}]
      [] t = "mama_mold" ->
           [hp |-> 30, base_dodge |-> 0, base_power |-> 0, base_defence |-> 0,
            immune_effects |-> {"Poisoned"}]
      [] t = "baby_shroom" ->
           [hp |-> 20, base_dodge |-> 0, base_power |-> 4, base_defence |-> 3,
            immune_effects |-> {"Spored"}]
xp_given(t) ==
    CASE t = "slime_mold" -> 35
      [] t = "rusty_automaton" -> 100
      [] t = "hunter_humanoid" -> 150
      [] t = "baby_shroom" -> 100
      [] t = "acid_mold" -> 50
      [] t = "mama_mold" -> 200
      [] OTHER -> 0
capacity(t) == IF t = "player" THEN 26 ELSE 0

\* entity_factories.py: the zones and what their component applies.
ZoneTemplates == {"hydrogen_sulfide_gas", "nitrous_oxide_gas", "spore_filled_air"}
zone_component(t) ==
    CASE t = "hydrogen_sulfide_gas" -> "HydrogenSulfideGas"
      [] t = "nitrous_oxide_gas" -> "NitrousOxideGas"
      [] t = "spore_filled_air" -> "SporeAir"

\* components/equippable.py: the bonuses of the equippables the model uses.
Equippable(i) ==
    CASE i = "acid_kinfe" ->
           [power_bonus |-> 3, defense_bonus |-> 0, dodge_bonus |-> 0]
      [] i = "spikey_chest_plate" ->
           [power_bonus |-> 0, defense_bonus |-> 2, dodge_bonus |-> 0]
      [] OTHER ->
           [power_bonus |-> 0, defense_bonus |-> 0, dodge_bonus |-> 0]

\* ai.py: the strategies.  An actor whose ai is NoAI is dead.
NoAI == [cls |-> "None"]
HostileEnemy(p) == [cls |-> "HostileEnemy", path |-> p]
ConfusedEnemy(prev, n) ==
    [cls |-> "ConfusedEnemy", previous_ai |-> prev, turns_remaining |-> n]
\* SpawnerEnemy after __init__: not set up, with no flee position, written
\* <<>>.  The attributes that setup creates, which perform does not read
\* before setup has run, are written "none" and 0 until then.
SpawnerEnemy ==
    [cls |-> "SpawnerEnemy", is_setup |-> FALSE, flee_position |-> <<>>,
     spawned_entity |-> "none", spawn_rate |-> 0, spawn_timer |-> 0]
\* SpawnerEnemy.setup
setup(a, spawned_entity, spawn_rate) ==
    [a EXCEPT !.spawned_entity = spawned_entity, !.spawn_rate = spawn_rate,
              !.spawn_timer = 0, !.is_setup = TRUE]

(***************************************************************************)
(* The state.                                                              *)
(***************************************************************************)
VARIABLES
    entities,            \* GameMap.entities
    template,            \* the factory an entity was copied from, "none" if unused
    pos,                 \* Entity.x, Entity.y
    last_position,       \* Entity.last_position
    blocks_movement,     \* Entity.blocks_movement
    name,                \* Entity.name, as the sequence of its parts
    is_swarm,            \* Entity.is_swarm
    ai,                  \* Actor.ai
    hp,                  \* Fighter._hp
    max_hp,              \* Fighter.max_hp
    status_effects,      \* Fighter.status_effects
    last_actor_hurt_by,  \* Fighter.last_actor_hurt_by
    equipment,           \* Actor.equipment: the equipped weapon and armor
    inventory,           \* Inventory.items
    duration,            \* Zone.duration
    is_permanent,        \* Zone.is_permanent
    moves_around,        \* Zone.moves_around
    visible,             \* GameMap.visible, as the set of visible cells
    credits,             \* GameWorld.credits
    current_xp,          \* Level.current_xp of the player
    player_confused_turns, \* GameWorld.player_confused_turns
    future_event_handler, \* Engine.future_event_handler: the NPC whose handler it is
    message_log,         \* the messages the last handler added to the log
    pc,                  \* where EventHandler.handle_action stands
    pending,             \* the entities the running for statement has yet to visit
    zones_to_remove,     \* the local list of Engine.handle_zones
    turns,               \* turns taken, and calls made by the unit harness
    op,                  \* the last handler run and how it ended
    died,                \* the entities Fighter.die ran for, in the last handler
    ticked,              \* the on_tick calls of the last handler
    phases,              \* the phases of the current turn, in the order they began
    performed,           \* the actors whose ai.perform ran in the current turn
    turn_pos,            \* Entity.x, Entity.y when the current turn began
    zone_log             \* the zones the last handler updated: where, and on whom

vars == <<entities, template, pos, last_position, blocks_movement, name,
          is_swarm, ai, hp, max_hp, status_effects, last_actor_hurt_by,
          equipment, inventory, duration, is_permanent, moves_around,
          visible, credits, current_xp, player_confused_turns, message_log,
          pc, pending, zones_to_remove, turns, op, died, ticked, phases,
          performed, future_event_handler, turn_pos, zone_log>>

\* The current world; raised is the pending exceptions.Impossible.
World ==
    [entities |-> entities, template |-> template, pos |-> pos,
     last_position |-> last_position, blocks_movement |-> blocks_movement,
     name |-> name, is_swarm |-> is_swarm, ai |-> ai, hp |-> hp,
     max_hp |-> max_hp, status_effects |-> status_effects,
     last_actor_hurt_by |-> last_actor_hurt_by, equipment |-> equipment,
     inventory |-> inventory, duration |-> duration,
     is_permanent |-> is_permanent, moves_around |-> moves_around,
     visible |-> visible, credits |-> credits, current_xp |-> current_xp,
     player_confused_turns |-> player_confused_turns,
     message_log |-> <<>>, pc |-> pc, pending |-> pending,
     zones_to_remove |-> zones_to_remove, turns |-> turns,
     died |-> <<>>, ticked |-> <<>>, phases |-> phases,
     performed |-> performed, future_event_handler |-> future_event_handler,
     turn_pos |-> turn_pos, zone_log |-> <<>>, raised |-> FALSE]

\* The step to world w, reached by running handler h.
Install(w, h) ==
    /\ entities' = w.entities
    /\ template' = w.template
    /\ pos' = w.pos
    /\ last_position' = w.last_position
    /\ blocks_movement' = w.blocks_movement
    /\ name' = w.name
    /\ is_swarm' = w.is_swarm
    /\ ai' = w.ai
    /\ hp' = w.hp
    /\ max_hp' = w.max_hp
    /\ status_effects' = w.status_effects
    /\ last_actor_hurt_by' = w.last_actor_hurt_by
    /\ equipment' = w.equipment
    /\ inventory' = w.inventory
    /\ duration' = w.duration
    /\ is_permanent' = w.is_permanent
    /\ moves_around' = w.moves_around
    /\ visible' = w.visible
    /\ credits' = w.credits
    /\ current_xp' = w.current_xp
    /\ player_confused_turns' = w.player_confused_turns
    /\ message_log' = w.message_log
    /\ pc' = w.pc
    /\ pending' = w.pending
    /\ zones_to_remove' = w.zones_to_remove
    /\ turns' = w.turns
    /\ op' = [h EXCEPT !.raised = w.raised]
    /\ died' = w.died
    /\ ticked' = w.ticked
    /\ phases' = w.phases
    /\ performed' = w.performed
    /\ future_event_handler' = w.future_event_handler
    /\ turn_pos' = w.turn_pos
    /\ zone_log' = w.zone_log

\* Statement sequencing: f runs on every outcome of S that raised nothing.
Bind(S, f(_)) == UNION {IF w.raised THEN {w} ELSE f(w) : w \in S}

\* raise exceptions.Impossible
Impossible(w) == [w EXCEPT !.raised = TRUE]

\* MessageLog.add_message
add_message(w, text) == [w EXCEPT !.message_log = Append(@, text)]

(***************************************************************************)
(* components/fighter.py                                                   *)
(***************************************************************************)
immune_effects(w, e) == Fighter(w.template[e]).immune_effects

\* Equipment.power_bonus and its like: the sum over the equipped items.
power_bonus(w, e) ==
    Equippable(w.equipment[e].weapon).power_bonus
        + Equippable(w.equipment[e].armor).power_bonus
defense_bonus(w, e) ==
    Equippable(w.equipment[e].weapon).defense_bonus
        + Equippable(w.equipment[e].armor).defense_bonus
dodge_bonus(w, e) ==
    Equippable(w.equipment[e].weapon).dodge_bonus
        + Equippable(w.equipment[e].armor).dodge_bonus

dodge(w, e) == Fighter(w.template[e]).base_dodge + dodge_bonus(w, e)
power(w, e) == Fighter(w.template[e]).base_power + power_bonus(w, e)
defense(w, e) == Fighter(w.template[e]).base_defence + defense_bonus(w, e)

\* Entity.internal_name: name.lower().replace(" ", "_") of the factory.
internal_name(w, e) == w.template[e]

\* A death that leaves the AI in place.
die_with_ai(w, e) ==
    {[w EXCEPT !.blocks_movement[e] = FALSE,
               !.name[e] = <<"Corpse of">> \o @,
               !.message_log = Append(@, <<"died", e>>),
               !.status_effects[e] = <<>>,
               !.died = Append(@, e)]}

\* A death that rewards the player whoever dealt the last blow.
die_rewarding(w, e) ==
    LET w1 == [w EXCEPT !.blocks_movement[e] = FALSE,
                        !.ai[e] = NoAI,
                        !.name[e] = <<"Corpse of">> \o @,
                        !.message_log = Append(@, <<"died", e>>),
                        !.status_effects[e] = <<>>,
                        !.died = Append(@, e)]
        w2 == [w1 EXCEPT !.current_xp = @ + xp_given(w.template[e])]
    IN  {IF roll <= CreditChance
         THEN add_message([w2 EXCEPT !.credits = @ + (w.max_hp[e] \div 4)],
                          <<"credits", e>>)
         ELSE w2 : roll \in 1 .. RollSides}

\* Fighter.die
die(w, e) ==
    LET w1 == [w EXCEPT !.blocks_movement[e] = FALSE,
                        !.ai[e] = NoAI,
                        !.name[e] = <<"Corpse of">> \o @,
                        !.message_log = Append(@, <<"died", e>>),
                        !.status_effects[e] = <<>>,
                        !.died = Append(@, e)]
    IN  IF /\ w.last_actor_hurt_by[e] = internal_name(w, Player)
           /\ ~w.is_swarm[e]
        THEN LET w2 == [w1 EXCEPT !.current_xp = @ + xp_given(w.template[e])]
             IN  {IF roll <= CreditChance
                  THEN add_message(
                           [w2 EXCEPT !.credits = @ + (w.max_hp[e] \div 4)],
                           <<"credits", e>>)
                  ELSE w2 : roll \in 1 .. RollSides}
        ELSE {w1}

\* A setter that forgets the lower clamp.
set_hp_unclamped(w, e, value) ==
    LET w1 == [w EXCEPT !.hp[e] = Min(value, w.max_hp[e])]
    IN  IF w1.hp[e] = 0 /\ w1.ai[e] # NoAI THEN die(w1, e) ELSE {w1}

\* A setter that forgets to ask whether the owner still has an AI.
set_hp_unguarded(w, e, value) ==
    LET w1 == [w EXCEPT !.hp[e] = Max(0, Min(value, w.max_hp[e]))]
    IN  IF w1.hp[e] = 0 THEN die(w1, e) ELSE {w1}

\* Fighter.hp (the setter)
set_hp(w, e, value) ==
    LET w1 == [w EXCEPT !.hp[e] = Max(0, Min(value, w.max_hp[e]))]
    IN  IF w1.hp[e] = 0 /\ w1.ai[e] # NoAI THEN die(w1, e) ELSE {w1}

\* Fighter.heal
heal(w, e, amount) ==
    IF w.hp[e] = w.max_hp[e]
    THEN {w}
    ELSE LET sum == w.hp[e] + amount
             new_hp_value == IF sum > w.max_hp[e] THEN w.max_hp[e] ELSE sum
         IN  set_hp(w, e, new_hp_value)

\* Fighter.take_damage
take_damage(w, e, amount) == set_hp(w, e, w.hp[e] - amount)

\* The index of the first entry of list whose name is n, 0 if there is none.
IndexOfName(list, n) ==
    IF \E i \in 1 .. Len(list) : list[i].name = n
    THEN CHOOSE i \in 1 .. Len(list) :
             /\ list[i].name = n
             /\ \A j \in 1 .. i - 1 : list[j].name # n
    ELSE 0

\* An apply_status_effect that appends whether or not the kind is present.
apply_status_effect_stacking(w, e, effect) ==
    IF effect.cls \in immune_effects(w, e)
    THEN {w}
    ELSE {add_message([w EXCEPT !.status_effects[e] = Append(@, effect)],
                      <<"now", e, effect.name>>)}

\* An apply_status_effect that does not look at the immunities.
apply_status_effect_no_immunity(w, e, effect) ==
    LET i == IndexOfName(w.status_effects[e], effect.name)
    IN  IF i # 0
        THEN {[w EXCEPT !.status_effects[e][i].duration = @ + effect.duration]}
        ELSE {add_message([w EXCEPT !.status_effects[e] = Append(@, effect)],
                          <<"now", e, effect.name>>)}

\* Fighter.apply_status_effect
apply_status_effect(w, e, effect) ==
    LET i == IndexOfName(w.status_effects[e], effect.name)
    IN  IF effect.cls \in immune_effects(w, e)
        THEN {w}
        ELSE IF i # 0
        THEN {[w EXCEPT !.status_effects[e][i].duration = @ + effect.duration]}
        ELSE {add_message([w EXCEPT !.status_effects[e] = Append(@, effect)],
                          <<"now", e, effect.name>>)}

(***************************************************************************)
(* game_map.py and entity.py                                               *)
(***************************************************************************)
\* The entities get_blocking_entity_at_location may return for cell c.
blocking_entities_at(w, c) ==
    {e \in w.entities : w.blocks_movement[e] /\ w.pos[e] = c}

\* GameMap.actors: the living actors of the map.
actors(w) == {e \in w.entities \cap ActorIds : w.ai[e] # NoAI}

\* The actors get_actor_at_location may return for cell c.
actors_at(w, c) == {e \in actors(w) : w.pos[e] = c}

\* GameMap.NPCs, and those get_NPC_at_location may return for cell c.
NPCs(w) == w.entities \cap NpcIds
npcs_at(w, c) == {n \in NPCs(w) : w.pos[n] = c}

\* The unused actor objects, by their place in ActorSlots.
FreeSlots(w) ==
    {i \in 1 .. Len(ActorSlots) : w.template[ActorSlots[i]] = "none"}

\* Entity.spawn of an actor factory t at cell c: a deep copy of the factory,
\* whose last_position is the factory's own position (0, 0).
spawn(w, t, c, swarm) ==
    IF FreeSlots(w) = {}
    THEN {}
    ELSE LET i == CHOOSE i \in FreeSlots(w) : \A j \in FreeSlots(w) : i <= j
             clone == ActorSlots[i]
         IN  {[w EXCEPT !.entities = @ \cup {clone},
                        !.template[clone] = t,
                        !.pos[clone] = c,
                        !.last_position[clone] = <<0, 0>>,
                        !.blocks_movement[clone] = TRUE,
                        !.name[clone] = <<t>>,
                        !.is_swarm[clone] = swarm,
                        !.ai[clone] = HostileEnemy(<<>>),
                        !.hp[clone] = Fighter(t).hp,
                        !.max_hp[clone] = Fighter(t).hp,
                        !.status_effects[clone] = <<>>,
                        !.last_actor_hurt_by[clone] = ""]}

(***************************************************************************)
(* status_effect.py                                                        *)
(***************************************************************************)
\* Poisoned.on_tick, but for the duration
Poisoned_on_tick(w, e, effect) == take_damage(w, e, effect.value)

\* Bleeding.on_tick, but for the duration
Bleeding_on_tick(w, e, effect) ==
    IF w.last_position[e] # w.pos[e]
    THEN take_damage(w, e, effect.value)
    ELSE {w}

\* The cells Spored.on_tick may end its search on: the first draw is around
\* the host, every later draw takes both coordinates from the host's x; the
\* search ends on a cell that holds a blocking entity or is walkable.
SporedCells(w, e) ==
    LET hx == w.pos[e][1]
        hy == w.pos[e][2]
        Ends(c) == blocking_entities_at(w, c) # {} \/ is_walkable_tile(c[1], c[2])
        First == {<<hx + dx, hy + dy>> : dx \in -1 .. 1, dy \in -1 .. 1}
        Later == {<<hx + dx, hx + dy>> : dx \in -1 .. 1, dy \in -1 .. 1}
    IN  {c \in First : Ends(c)}
            \cup (IF \E c \in First : ~Ends(c) THEN {c \in Later : Ends(c)} ELSE {})

\* Spored.on_tick, but for the duration
Spored_on_tick(w, e, effect) ==
    Bind(take_damage(w, e, effect.value), LAMBDA w1 :
        IF w1.hp[e] <= 0
        THEN UNION {Bind(spawn(w1, "baby_shroom", c, FALSE), LAMBDA w2 :
                        {add_message(w2, <<"bursts", e>>)})
                    : c \in SporedCells(w1, e)}
        ELSE {w1})

\* StatusEffect.on_tick of the three classes, but for the duration
on_tick(w, e, effect) ==
    CASE effect.cls = "Poisoned" -> Poisoned_on_tick(w, e, effect)
      [] effect.cls = "Bleeding" -> Bleeding_on_tick(w, e, effect)
      [] effect.cls = "Spored" -> Spored_on_tick(w, e, effect)

\* An on_tick that leaves the duration alone.
tick_duration_kept(effect) == effect

\* self.duration -= 1, the last statement of every on_tick
tick_duration(effect) == [effect EXCEPT !.duration = @ - 1]

(***************************************************************************)
(* Fighter.update_status_effects.  The for statement walks the list object *)
(* that self.status_effects named when it began, by index: list is that    *)
(* object, i the index of the next entry, and bound tells whether          *)
(* self.status_effects still names it (die() binds a new, empty list).     *)
(***************************************************************************)
RemoveAt(list, i) == SubSeq(list, 1, i - 1) \o SubSeq(list, i + 1, Len(list))
InList(list, x) == \E j \in 1 .. Len(list) : list[j] = x

\* self.status_effects.remove(status_effect) and the "no longer" message
expire(w, e, effect, list) ==
    add_message([w EXCEPT !.status_effects[e] = list],
                <<"no longer", e, effect.name>>)

RECURSIVE update_loop(_, _, _, _, _)
update_loop(w, e, list, i, bound) ==
    IF i > Len(list)
    THEN {w}
    ELSE UNION {
        LET still == bound /\ ~(w.ai[e] # NoAI /\ w1.ai[e] = NoAI)
            effect == tick_duration(list[i])
            list1 == [list EXCEPT ![i] = effect]
            w2 == [w1 EXCEPT
                     !.status_effects[e] = IF still THEN list1 ELSE @,
                     !.ticked = Append(@, [entity |-> e, cls |-> effect.cls,
                                           before |-> list[i].duration,
                                           after |-> effect.duration])]
        IN  IF effect.duration <= 0 /\ still
            THEN update_loop(expire(w2, e, effect, RemoveAt(list1, i)),
                             e, RemoveAt(list1, i), i + 1, still)
            ELSE IF effect.duration <= 0 /\ InList(w2.status_effects[e], effect)
            THEN update_loop(
                     expire(w2, e, effect,
                            RemoveAt(w2.status_effects[e],
                                     CHOOSE j \in 1 .. Len(w2.status_effects[e]) :
                                         w2.status_effects[e][j] = effect)),
                     e, list1, i + 1, still)
            ELSE update_loop(w2, e, list1, i + 1, still)
        : w1 \in on_tick(w, e, list[i])}

\* Fighter.update_status_effects
update_status_effects(w, e) == update_loop(w, e, w.status_effects[e], 1, TRUE)

(***************************************************************************)
(* actions.py                                                              *)
(***************************************************************************)
\* Entity.move
move(w, e, dx, dy) ==
    [w EXCEPT !.last_position[e] = w.pos[e],
              !.pos[e] = <<w.pos[e][1] + dx, w.pos[e][2] + dy>>]

\* ActionWithDirection.dest_xy
dest_xy(w, e, dx, dy) == <<w.pos[e][1] + dx, w.pos[e][2] + dy>>

\* A move that does not look for a blocking entity at the destination.
MovementAction_through_entities(w, e, dx, dy) ==
    LET dest == dest_xy(w, e, dx, dy)
    IN  IF ~in_bounds(dest[1], dest[2])
        THEN {Impossible(w)}
        ELSE IF ~walkable(dest)
        THEN {Impossible(w)}
        ELSE {move(w, e, dx, dy)}

\* MovementAction.perform
MovementAction(w, e, dx, dy) ==
    LET dest == dest_xy(w, e, dx, dy)
    IN  IF ~in_bounds(dest[1], dest[2])
        THEN {Impossible(w)}
        ELSE IF ~walkable(dest)
        THEN {Impossible(w)}
        ELSE IF blocking_entities_at(w, dest) # {}
        THEN {Impossible(w)}
        ELSE {move(w, e, dx, dy)}

\* WaitAction.perform
WaitAction(w, e) == {[w EXCEPT !.last_position[e] = w.pos[e]]}

\* AcidKinfe.on_attack; the other weapon of the model has no hook
on_attack(w, weapon, target) ==
    IF weapon = "acid_kinfe"
    THEN apply_status_effect(w, target, StatusEffect("Poisoned", 6, 1))
    ELSE {w}

\* SpikeyChestPlate.on_hit, whose parameter target is the attacker
on_hit(w, armor, target, damage) ==
    IF armor = "spikey_chest_plate"
    THEN Bind(apply_status_effect(w, target,
                                  StatusEffect("Bleeding", 6, damage \div 2)),
              LAMBDA w1 : take_damage(w1, target, 2))
    ELSE {w}

\* MeleeAction.effect when no effect is given
NoEffect == [cls |-> "None"]

\* A hook call that hands the armor its own wearer.
on_hit_argument_wearer(e, target) == target

\* on_hit(self.entity, damage): the actor the armor of the target is handed
on_hit_argument(e, target) == e

\* A damage that takes no account of the target's defense.
melee_damage_undefended(w, e, target) == power(w, e)

\* damage = self.entity.fighter.power - target.fighter.defense
melee_damage(w, e, target) == power(w, e) - defense(w, target)

\* MeleeAction.perform from the hit on: the roll did not let the target dodge
MeleeHit(w, e, target, effect) ==
    LET damage == melee_damage(w, e, target)
    IN  IF damage > 0
        THEN Bind(set_hp(add_message(w, <<"attacks", e, target>>),
                         target, w.hp[target] - damage),
             LAMBDA w1 : Bind(on_attack(w1, w1.equipment[e].weapon, target),
             LAMBDA w2 : Bind(on_hit(w2, w2.equipment[target].armor,
                                     on_hit_argument(e, target), damage),
             LAMBDA w3 : IF effect.cls # "None"
                         THEN apply_status_effect(w3, target, effect)
                         ELSE {w3})))
        ELSE {add_message(w, <<"no damage", e, target>>)}

\* A dodge test that negates on a roll below the dodge stat only.
Dodged_strictly(roll, stat) == roll < stat

\* roll <= target.fighter.dodge
Dodged(roll, stat) == roll <= stat

\* MeleeAction.perform
MeleeAction(w, e, dx, dy, effect) ==
    LET targets == actors_at(w, dest_xy(w, e, dx, dy))
    IN  IF targets = {}
        THEN {Impossible(w)}
        ELSE UNION {
            (IF \E roll \in 1 .. RollSides : Dodged(roll, dodge(w, target))
             THEN {add_message(w, <<"dodges", e, target>>)}
             ELSE {})
            \cup
            (IF \E roll \in 1 .. RollSides : ~Dodged(roll, dodge(w, target))
             THEN MeleeHit(w, e, target, effect)
             ELSE {})
            : target \in targets}

\* NPC.interact: the message, and the handler it returns
interact(w, npc) == add_message(w, <<"interact", npc>>)

\* InteractNPCAction.perform
InteractNPCAction(w, e, dx, dy) ==
    LET found == npcs_at(w, dest_xy(w, e, dx, dy))
    IN  IF found # {}
        THEN {[interact(w, npc) EXCEPT !.future_event_handler = npc]
              : npc \in found}
        ELSE {Impossible(w)}

\* A Bump that looks for an NPC before it looks for an actor.
BumpAction_npc_first(w, e, dx, dy) ==
    IF npcs_at(w, dest_xy(w, e, dx, dy)) # {}
    THEN InteractNPCAction([w EXCEPT !.last_position[e] = w.pos[e]], e, dx, dy)
    ELSE IF actors_at(w, dest_xy(w, e, dx, dy)) # {}
    THEN MeleeAction([w EXCEPT !.last_position[e] = w.pos[e]], e, dx, dy, NoEffect)
    ELSE MovementAction(w, e, dx, dy)

\* BumpAction.perform
BumpAction(w, e, dx, dy) ==
    IF actors_at(w, dest_xy(w, e, dx, dy)) # {}
    THEN MeleeAction([w EXCEPT !.last_position[e] = w.pos[e]], e, dx, dy, NoEffect)
    ELSE IF npcs_at(w, dest_xy(w, e, dx, dy)) # {}
    THEN InteractNPCAction([w EXCEPT !.last_position[e] = w.pos[e]], e, dx, dy)
    ELSE MovementAction(w, e, dx, dy)

\* GameMap.items, those on the cell of e
items_at(w, e) == {i \in w.entities \cap ItemIds : w.pos[i] = w.pos[e]}

\* A pickup that does not ask for room.
PickupAction_any_load(w, e) ==
    IF items_at(w, e) = {}
    THEN {Impossible(w)}
    ELSE {add_message([w EXCEPT !.entities = @ \ {item},
                                !.inventory[e] = Append(@, item)],
                      <<"picked up", item>>)
          : item \in items_at(w, e)}

\* PickupAction.perform
PickupAction(w, e) ==
    IF items_at(w, e) = {}
    THEN {Impossible(w)}
    ELSE {IF Len(w.inventory[e]) >= capacity(w.template[e])
          THEN Impossible(w)
          ELSE add_message([w EXCEPT !.entities = @ \ {item},
                                     !.inventory[e] = Append(@, item)],
                           <<"picked up", item>>)
          : item \in items_at(w, e)}

(***************************************************************************)
(* components/ai.py                                                        *)
(***************************************************************************)
\* A value stored in the cost array, whose dtype is np.int8: what is left of
\* v in CostBits bits, two's complement.
Int8(v) == ((v + 2 ^ (CostBits - 1)) % 2 ^ CostBits) - 2 ^ (CostBits - 1)

\* The cost array of BaseAI.get_path_to on a map of the given cells and
\* walls, crowd[c] blocking entities standing on cell c: 0 for a wall,
\* otherwise 1 and the penalty of every blocking entity on the cell, added
\* in the array's own width.
cost_array(cells, walls, crowd) ==
    [c \in cells |->
        IF c \notin walls THEN Int8(1 + CrowdingCost * crowd[c]) ELSE 0]

\* The cost array of the floor of world w.
CostGrid(w) ==
    cost_array(Cells, Walls,
               [c \in Cells |-> Cardinality(blocking_entities_at(w, c))])

Chebyshev(a, b) == Max(Abs(a[1] - b[1]), Abs(a[2] - b[2]))
\* The cells one step from c in the eight directions of the SimpleGraph.
NeighboursIn(cells, c) ==
    {<<c[1] + d[1], c[2] + d[2]>> : d \in Directions} \cap cells
Neighbours(c) == NeighboursIn(Cells, c)

\* The cost of the step from a onto its neighbour b in the SimpleGraph.
StepCost(cost, a, b) ==
    cost[b] * (IF a[1] = b[1] \/ a[2] = b[2] THEN CardinalCost ELSE DiagonalCost)

\* More than any walk on the cells costs.
UnreachedIn(cells) ==
    1 + Cardinality(cells) * DiagonalCost * (1 + CrowdingCost * Cardinality(Ids))
Unreached == UnreachedIn(Cells)

\* The least cost from the root to every cell, by relaxation to a fixed point.
RECURSIVE DistancesIn(_, _, _)
DistancesIn(cells, cost, d) ==
    LET far == UnreachedIn(cells)
        d1 == [c \in cells |->
                 LET via == {d[n] + StepCost(cost, n, c) :
                                n \in {m \in NeighboursIn(cells, c) :
                                          d[m] < far /\ cost[c] > 0}}
                 IN  IF via = {} THEN d[c]
                     ELSE Min(d[c], CHOOSE v \in via : \A u \in via : v <= u)]
    IN  IF d1 = d THEN d ELSE DistancesIn(cells, cost, d1)

\* The least-cost walks from the root to cell c, the root left out.
RECURSIVE PathsIn(_, _, _, _, _)
PathsIn(cells, cost, d, root, c) ==
    IF c = root
    THEN {<<>>}
    ELSE UNION {{Append(q, c) : q \in PathsIn(cells, cost, d, root, n)} :
                  n \in {m \in NeighboursIn(cells, c) :
                            /\ d[m] < UnreachedIn(cells)
                            /\ cost[c] > 0
                            /\ d[m] + StepCost(cost, m, c) = d[c]}}

\* A path that keeps its starting point.
path_to_with_root(cells, cost, root, dest) ==
    LET d == DistancesIn(cells, cost,
                         [c \in cells |-> IF c = root THEN 0 ELSE UnreachedIn(cells)])
    IN  IF d[dest] >= UnreachedIn(cells)
        THEN {<<>>}
        ELSE {<<root>> \o p : p \in PathsIn(cells, cost, d, root, dest)}

\* pathfinder.path_to((dest_x, dest_y))[1:]: the paths the path finder may
\* return from the root, the root left out; the empty path when no walk
\* leads to dest.
path_to(cells, cost, root, dest) ==
    LET d == DistancesIn(cells, cost,
                         [c \in cells |-> IF c = root THEN 0 ELSE UnreachedIn(cells)])
    IN  IF d[dest] >= UnreachedIn(cells)
        THEN {<<>>}
        ELSE PathsIn(cells, cost, d, root, dest)

\* BaseAI.get_path_to on the floor of world w
get_path_to(w, e, dest) == path_to(Cells, CostGrid(w), w.pos[e], dest)

\* HostileEnemy.perform from "if self.path" on
HostileStep(w, e) ==
    IF w.ai[e].path # <<>>
    THEN LET dest == Head(w.ai[e].path)
         IN  MovementAction([w EXCEPT !.ai[e].path = Tail(@)], e,
                            dest[1] - w.pos[e][1], dest[2] - w.pos[e][2])
    ELSE WaitAction(w, e)

\* A HostileEnemy that takes a new path to the player in and out of sight.
HostileEnemy_perform_tracking(w, e) ==
    LET dx == w.pos[Player][1] - w.pos[e][1]
        dy == w.pos[Player][2] - w.pos[e][2]
        distance == Max(Abs(dx), Abs(dy))
    IN  IF w.pos[e] \in w.visible /\ distance <= 1
        THEN MeleeAction(w, e, dx, dy, NoEffect)
        ELSE UNION {HostileStep([w EXCEPT !.ai[e].path = path], e) :
                      path \in get_path_to(w, e, w.pos[Player])}

\* HostileEnemy.perform
HostileEnemy_perform(w, e) ==
    LET dx == w.pos[Player][1] - w.pos[e][1]
        dy == w.pos[Player][2] - w.pos[e][2]
        distance == Max(Abs(dx), Abs(dy))
    IN  IF w.pos[e] \in w.visible
        THEN IF distance <= 1
             THEN MeleeAction(w, e, dx, dy, NoEffect)
             ELSE UNION {HostileStep([w EXCEPT !.ai[e].path = path], e) :
                           path \in get_path_to(w, e, w.pos[Player])}
        ELSE HostileStep(w, e)

\* A confusion that counts the bumps that succeed only.
ConfusedEnemy_perform_counting(w, e) ==
    IF w.ai[e].turns_remaining <= 0
    THEN {add_message([w EXCEPT !.ai[e] = w.ai[e].previous_ai],
                      <<"no longer confused", e>>)}
    ELSE UNION {{IF w1.raised THEN w1
                 ELSE [w1 EXCEPT !.ai[e].turns_remaining = @ - 1]
                 : w1 \in BumpAction(w, e, d[1], d[2])} : d \in Directions}

\* ConfusedEnemy.perform
ConfusedEnemy_perform(w, e) ==
    IF w.ai[e].turns_remaining <= 0
    THEN {add_message([w EXCEPT !.ai[e] = w.ai[e].previous_ai],
                      <<"no longer confused", e>>)}
    ELSE UNION {BumpAction([w EXCEPT !.ai[e].turns_remaining = @ - 1],
                           e, d[1], d[2]) : d \in Directions}

\* The cells SpawnerEnemy.perform draws from: each coordinate within reach
\* of the spawner's.
Around(c, reach) ==
    {<<c[1] + i, c[2] + j>> : i \in -reach .. reach, j \in -reach .. reach}

\* The cells that end the while statement of the spawn: in bounds and held
\* by a blocking entity.
SpawnCells(w, e) ==
    {c \in Around(w.pos[e], SpawnReach) :
        ~(~in_bounds(c[1], c[2]) \/ blocking_entities_at(w, c) = {})}

\* A flee position taken from every cell of the map.
FleeCells_any(w, e) ==
    {c \in Around(w.pos[e], FleeReach) : in_bounds(c[1], c[2])}

\* The cells that end the while statement of the flee position: in bounds,
\* held by no blocking entity, walkable.
FleeCells(w, e) ==
    {c \in Around(w.pos[e], FleeReach) :
        ~(\/ ~in_bounds(c[1], c[2])
          \/ blocking_entities_at(w, c) # {}
          \/ ~walkable(c))}

\* SpawnerEnemy.perform from "Add 1 to the spawn timer" on
SpawnerIdle(w, e) == WaitAction([w EXCEPT !.ai[e].spawn_timer = @ + 1], e)

\* SpawnerEnemy.perform from the distance to the player on.  self.path is
\* written here and read nowhere else, so the state does not keep it.
SpawnerFlee(w, e) ==
    LET dx == w.pos[Player][1] - w.pos[e][1]
        dy == w.pos[Player][2] - w.pos[e][2]
    IN  IF dx * dx + dy * dy < FleeTrigger * FleeTrigger
        THEN UNION {
            UNION {IF path # <<>>
                   THEN MovementAction(w1, e, Head(path)[1] - w1.pos[e][1],
                                       Head(path)[2] - w1.pos[e][2])
                   ELSE SpawnerIdle(w1, e)
                   : path \in get_path_to(w1, e, w1.ai[e].flee_position)}
            : w1 \in IF w.ai[e].flee_position = <<>>
                     THEN {[w EXCEPT !.ai[e].flee_position = c]
                           : c \in FleeCells(w, e)}
                     ELSE {w}}
        ELSE SpawnerIdle(w, e)

\* The while statement of the spawn from its test on: the cell drawn last
\* ends it when it is a spawn cell; any other cell has one more cell drawn
\* and adds 1 to tries, and the statement gives up once tries is above
\* SpawnTries.  Each outcome is the cell the statement ended on, <<>> when it
\* gave up, with the number of cells drawn.
RECURSIVE SpawnDraws(_, _, _, _)
SpawnDraws(w, e, tries, draws) ==
    {[cell |-> c, draws |-> draws] : c \in SpawnCells(w, e)}
    \cup
    (IF Around(w.pos[e], SpawnReach) \ SpawnCells(w, e) # {}
     THEN IF tries + 1 > SpawnTries
          THEN {[cell |-> <<>>, draws |-> draws + 1]}
          ELSE SpawnDraws(w, e, tries + 1, draws + 1)
     ELSE {})

\* A spawner that goes on without asking whether it is seen.
SpawnerEnemy_perform_unseen(w, e) ==
    IF ~w.ai[e].is_setup
    THEN WaitAction(w, e)
    ELSE LET w1 == IF w.ai[e].flee_position = w.pos[e]
                   THEN [w EXCEPT !.ai[e].flee_position = <<>>]
                   ELSE w
         IN  IF w1.ai[e].spawn_timer >= w1.ai[e].spawn_rate
             THEN LET w2 == [w1 EXCEPT !.ai[e].spawn_timer = 0]
                  IN  (IF Around(w2.pos[e], SpawnReach) \ SpawnCells(w2, e) # {}
                       THEN WaitAction(w2, e)
                       ELSE {})
                      \cup
                      UNION {Bind(spawn(w2, w2.ai[e].spawned_entity, c, FALSE),
                                  LAMBDA w3 :
                                      SpawnerFlee(add_message(w3, <<"spawned", e>>), e))
                             : c \in SpawnCells(w2, e)}
             ELSE SpawnerFlee(w1, e)

\* SpawnerEnemy.perform
SpawnerEnemy_perform(w, e) ==
    IF ~w.ai[e].is_setup \/ w.pos[e] \notin w.visible
    THEN WaitAction(w, e)
    ELSE LET w1 == IF w.ai[e].flee_position = w.pos[e]
                   THEN [w EXCEPT !.ai[e].flee_position = <<>>]
                   ELSE w
         IN  IF w1.ai[e].spawn_timer >= w1.ai[e].spawn_rate
             THEN LET w2 == [w1 EXCEPT !.ai[e].spawn_timer = 0]
                  IN  UNION {IF r.cell = <<>>
                             THEN WaitAction(w2, e)
                             ELSE Bind(spawn(w2, w2.ai[e].spawned_entity, r.cell, FALSE),
                                       LAMBDA w3 :
                                           SpawnerFlee(add_message(w3, <<"spawned", e>>), e))
                             : r \in SpawnDraws(w2, e, 0, 1)}
             ELSE SpawnerFlee(w1, e)

\* entity.ai.perform()
perform(w, e) ==
    CASE w.ai[e].cls = "HostileEnemy" -> HostileEnemy_perform(w, e)
      [] w.ai[e].cls = "ConfusedEnemy" -> ConfusedEnemy_perform(w, e)
      [] w.ai[e].cls = "SpawnerEnemy" -> SpawnerEnemy_perform(w, e)

(***************************************************************************)
(* components/zone.py and Zone of entity.py                                *)
(***************************************************************************)
\* GameMap.zones: the zones of the map.
zones(w) == w.entities \cap ZoneIds

\* A drift that does not look for another zone at the destination.
on_update_crowding(w, z) ==
    IF w.moves_around[z]
    THEN {LET dest == dest_xy(w, z, d[1], d[2])
          IN  IF is_walkable_tile(dest[1], dest[2])
              THEN move(w, z, d[1], d[2])
              ELSE w
          : d \in Directions}
    ELSE {w}

\* Zone.on_update
on_update(w, z) ==
    IF w.moves_around[z]
    THEN {LET dest == dest_xy(w, z, d[1], d[2])
          IN  IF /\ is_walkable_tile(dest[1], dest[2])
                 /\ ~\E other \in zones(w) : w.pos[other] = dest
              THEN move(w, z, d[1], d[2])
              ELSE w
          : d \in Directions}
    ELSE {w}

\* Components whose nitrous oxide confuses an actor that is confused already.
on_actor_tick_anew(w, z, actor) ==
    CASE zone_component(w.template[z]) = "HydrogenSulfideGas" ->
           apply_status_effect(w, actor, StatusEffect("Poisoned", 7, 2))
      [] zone_component(w.template[z]) = "NitrousOxideGas" ->
           IF actor = Player
           THEN {[w EXCEPT !.player_confused_turns = ConfusedTurns]}
           ELSE IF w.ai[actor] # NoAI
           THEN {[w EXCEPT !.ai[actor] = ConfusedEnemy(w.ai[actor], ConfusedTurns)]}
           ELSE {w}
      [] zone_component(w.template[z]) = "SporeAir" ->
           apply_status_effect(w, actor, StatusEffect("Spored", 15, 1))

\* ZoneComponent.on_actor_tick of the three components
on_actor_tick(w, z, actor) ==
    CASE zone_component(w.template[z]) = "HydrogenSulfideGas" ->
           apply_status_effect(w, actor, StatusEffect("Poisoned", 7, 2))
      [] zone_component(w.template[z]) = "NitrousOxideGas" ->
           IF actor = Player
           THEN {[w EXCEPT !.player_confused_turns = ConfusedTurns]}
           ELSE IF w.ai[actor] # NoAI /\ w.ai[actor].cls # "ConfusedEnemy"
           THEN {[w EXCEPT !.ai[actor] = ConfusedEnemy(w.ai[actor], ConfusedTurns)]}
           ELSE {w}
      [] zone_component(w.template[z]) = "SporeAir" ->
           apply_status_effect(w, actor, StatusEffect("Spored", 15, 1))

\* A test that takes every actor with hit points, wherever it stands.
shares_cell_anywhere(w, z, actor) == w.hp[actor] > 0

\* zone.x == actor.x and zone.y == actor.y, actor.fighter and its hp > 0
shares_cell(w, z, actor) == w.pos[z] = w.pos[actor] /\ w.hp[actor] > 0

\* The entry of zone_log for the zone being ticked: where it was, where it
\* is after on_update, and the actors its component was invoked on.
zone_entry(w, z, from) ==
    [zone |-> z, from |-> from, cell |-> w.pos[z], invoked |-> {},
     moves_around |-> w.moves_around[z], is_permanent |-> w.is_permanent[z],
     duration |-> w.duration[z]]

invoked_on(w, actor) ==
    [w EXCEPT !.zone_log[Len(w.zone_log)].invoked = @ \cup {actor}]

\* The inner for statement of Engine.handle_zones over the actors in todo.
RECURSIVE tick_actors(_, _, _)
tick_actors(w, z, todo) ==
    IF todo = {}
    THEN {w}
    ELSE LET actor == CHOOSE a \in todo : TRUE
         IN  Bind(IF shares_cell(w, z, actor)
                  THEN on_actor_tick(invoked_on(w, actor), z, actor)
                  ELSE {w},
                  LAMBDA w1 : tick_actors(w1, z, todo \ {actor}))

\* A zone tick that lets a zone go only once its duration is below 0.
handle_zone_late(w, z) ==
    Bind(on_update(w, z), LAMBDA w1 :
    Bind(tick_actors([w1 EXCEPT !.zone_log =
                                    Append(@, zone_entry(w1, z, w.pos[z]))],
                     z, actors(w1)), LAMBDA w2 :
        IF ~w2.is_permanent[z]
        THEN LET w3 == [w2 EXCEPT !.duration[z] = @ - 1]
             IN  {IF w3.duration[z] < 0
                  THEN [w3 EXCEPT !.zones_to_remove = Append(@, z)]
                  ELSE w3}
        ELSE {w2}))

\* A zone tick that counts every zone down, permanent or not.
handle_zone_all_expire(w, z) ==
    Bind(on_update(w, z), LAMBDA w1 :
    Bind(tick_actors([w1 EXCEPT !.zone_log =
                                    Append(@, zone_entry(w1, z, w.pos[z]))],
                     z, actors(w1)), LAMBDA w2 :
        LET w3 == [w2 EXCEPT !.duration[z] = @ - 1]
        IN  {IF w3.duration[z] <= 0
             THEN [w3 EXCEPT !.zones_to_remove = Append(@, z)]
             ELSE w3}))

\* A zone tick that takes an expired zone off the map at once.
handle_zone_removing(w, z) ==
    Bind(on_update(w, z), LAMBDA w1 :
    Bind(tick_actors([w1 EXCEPT !.zone_log =
                                    Append(@, zone_entry(w1, z, w.pos[z]))],
                     z, actors(w1)), LAMBDA w2 :
        IF ~w2.is_permanent[z]
        THEN LET w3 == [w2 EXCEPT !.duration[z] = @ - 1]
             IN  {IF w3.duration[z] <= 0
                  THEN [w3 EXCEPT !.entities = @ \ {z}]
                  ELSE w3}
        ELSE {w2}))

\* The body of the outer for statement of Engine.handle_zones
handle_zone(w, z) ==
    Bind(on_update(w, z), LAMBDA w1 :
    Bind(tick_actors([w1 EXCEPT !.zone_log =
                                    Append(@, zone_entry(w1, z, w.pos[z]))],
                     z, actors(w1)), LAMBDA w2 :
        IF ~w2.is_permanent[z]
        THEN LET w3 == [w2 EXCEPT !.duration[z] = @ - 1]
             IN  {IF w3.duration[z] <= 0
                  THEN [w3 EXCEPT !.zones_to_remove = Append(@, z)]
                  ELSE w3}
        ELSE {w2}))

(***************************************************************************)
(* Engine.update_fov.  A cell is lit when every cell strictly between the  *)
(* player and it, along the digital line joining them, is transparent.     *)
(***************************************************************************)
\* a * t / n rounded to the nearest integer, for n > 0.
Scaled(a, t, n) ==
    IF a >= 0 THEN (2 * a * t + n) \div (2 * n) ELSE -((2 * (-a) * t + n) \div (2 * n))

compute_fov(origin) ==
    {c \in Cells :
        LET n == Chebyshev(origin, c)
        IN  /\ n <= FovRadius
            /\ \A t \in 1 .. n - 1 :
                  transparent(<<origin[1] + Scaled(c[1] - origin[1], t, n),
                                origin[2] + Scaled(c[2] - origin[2], t, n)>>)}

update_fov(w) == [w EXCEPT !.visible = compute_fov(w.pos[Player])]

(***************************************************************************)
(* EventHandler.handle_action and the phases of Engine it calls.  pc names *)
(* the phase that is running and pending the entities its for statement    *)
(* has yet to visit; a phase that has visited them all hands over to the   *)
(* next one in the same step.                                              *)
(***************************************************************************)
\* The order that swaps the status effects and the zones.
next_phase_zones_first(p) ==
    CASE p = "player" -> "enemy_turns"
      [] p = "enemy_turns" -> "zones"
      [] p = "zones" -> "status_effects"
      [] p = "status_effects" -> "fov"

\* The order of the calls in handle_action
next_phase(p) ==
    CASE p = "player" -> "enemy_turns"
      [] p = "enemy_turns" -> "status_effects"
      [] p = "status_effects" -> "zones"
      [] p = "zones" -> "fov"

\* What the for statement of phase p walks: handle_enemy_turns and
\* handle_status_effects copy the living actors into a set, handle_zones
\* walks the zones.
to_visit(w, p) ==
    CASE p = "enemy_turns" -> actors(w) \ {Player}
      [] p = "status_effects" -> actors(w)
      [] p = "zones" -> zones(w)
      [] p = "fov" -> {}

\* The last for statement of handle_zones.  Nothing refers to a removed zone
\* any more: the object is gone, and its slot is unused again.
remove_zones(w) ==
    LET gone == {w.zones_to_remove[i] : i \in 1 .. Len(w.zones_to_remove)}
    IN  [w EXCEPT !.entities = @ \ gone,
                  !.template = [e \in Ids |-> IF e \in gone THEN "none" ELSE @[e]],
                  !.pos = [e \in Ids |-> IF e \in gone THEN <<0, 0>> ELSE @[e]],
                  !.last_position =
                      [e \in Ids |-> IF e \in gone THEN <<0, 0>> ELSE @[e]],
                  !.name = [e \in Ids |-> IF e \in gone THEN <<>> ELSE @[e]],
                  !.duration = [e \in Ids |-> IF e \in gone THEN 0 ELSE @[e]],
                  !.moves_around =
                      [e \in Ids |-> IF e \in gone THEN FALSE ELSE @[e]],
                  !.zones_to_remove = <<>>]

RECURSIVE begin_phase(_, _)
begin_phase(w, p) ==
    LET w1 == [w EXCEPT !.pc = p,
                        !.phases = Append(@, p),
                        !.pending = to_visit(w, p)]
    IN  IF p # "fov" /\ w1.pending = {}
        THEN begin_phase(IF p = "zones" THEN remove_zones(w1) ELSE w1,
                         next_phase(p))
        ELSE w1

\* The for statement of the running phase has visited entity e.
visited(w, e) ==
    LET w1 == [w EXCEPT !.pending = @ \ {e}]
    IN  IF w1.pending = {}
        THEN begin_phase(IF w.pc = "zones" THEN remove_zones(w1) ELSE w1,
                         next_phase(w.pc))
        ELSE w1

\* A handle_action that runs the rest of the turn after a failed action.
handle_action_consuming(w, outcomes) ==
    {IF w1.raised
     THEN begin_phase(add_message(w1, <<"impossible">>), "enemy_turns")
     ELSE begin_phase(w1, "enemy_turns")
     : w1 \in outcomes}

\* EventHandler.handle_action, given the outcomes of action.perform()
handle_action(w, outcomes) ==
    {IF w1.raised
     THEN add_message(w1, <<"impossible">>)
     ELSE begin_phase(w1, "enemy_turns")
     : w1 \in outcomes}

\* The keys of MainGameEventHandler.ev_keydown that make an action.
Keys ==
    {[key |-> "move", dx |-> d[1], dy |-> d[2]] : d \in Directions}
        \cup {[key |-> "wait", dx |-> 0, dy |-> 0],
              [key |-> "pickup", dx |-> 0, dy |-> 0]}

\* MainGameEventHandler.ev_keydown followed by handle_action
handle_events(w, k) ==
    LET w0 == [w EXCEPT !.phases = <<"player">>, !.performed = <<>>,
                        !.turn_pos = w.pos]
    IN  IF w.player_confused_turns > 0
        THEN UNION {
            LET w1 == [w0 EXCEPT !.player_confused_turns = Max(0, @ - 1)]
                w2 == IF w1.player_confused_turns = 0
                      THEN add_message(w1, <<"senses">>)
                      ELSE w1
            IN  IF is_walkable_tile(w.pos[Player][1] + d[1],
                                    w.pos[Player][2] + d[2])
                THEN handle_action(w2, MovementAction(w2, Player, d[1], d[2]))
                ELSE {[w2 EXCEPT !.phases = <<>>]}
            : d \in Directions}
        ELSE CASE k.key = "move" ->
                    handle_action(w0, BumpAction(w0, Player, k.dx, k.dy))
               [] k.key = "wait" -> handle_action(w0, WaitAction(w0, Player))
               [] k.key = "pickup" -> handle_action(w0, PickupAction(w0, Player))

\* A loop body that passes over the entity it visits.
enemy_turn_skipping(w, e) == {visited(w, e)}

\* A for statement that lets exceptions.Impossible escape.
enemy_turn_uncaught(w, e) ==
    IF w.ai[e] # NoAI
    THEN {IF w1.raised
          THEN [add_message(w1, <<"impossible">>) EXCEPT !.pc = "input",
                                                         !.pending = {}]
          ELSE visited(w1, e)
          : w1 \in perform([w EXCEPT !.performed = Append(@, e)], e)}
    ELSE {visited(w, e)}

\* The body of the for statement of Engine.handle_enemy_turns
enemy_turn(w, e) ==
    IF w.ai[e] # NoAI
    THEN {visited(w1, e)
          : w1 \in perform([w EXCEPT !.performed = Append(@, e)], e)}
    ELSE {visited(w, e)}

\* The body of the for statement of Engine.handle_status_effects
status_turn(w, e) == {visited(w1, e) : w1 \in update_status_effects(w, e)}

\* The body of the outer for statement of Engine.handle_zones
zone_turn(w, z) == {visited(w1, z) : w1 \in handle_zone(w, z)}

\* engine.update_fov(), the last call of handle_action; handle_events then
\* hands the future event handler over and forgets it
fov_turn(w) ==
    [update_fov(w) EXCEPT !.pc = "input", !.turns = @ + 1,
                          !.future_event_handler = "none"]

(***************************************************************************)
(* The initial floor.  The player stands on an item at (0, 0) beside a     *)
(* slime mold at (1, 0); a confused rusty automaton stands at (2, 0); a    *)
(* gas cloud in its last turn lies on the slime mold.  The slime mold is   *)
(* whole or wounded and the player bare or equipped under hydrogen         *)
(* sulfide; under the other two gases the slime mold is whole and the      *)
(* player bare, and nitrous oxide may have confused the player already.    *)
(***************************************************************************)
NoEquipment == [weapon |-> "none", armor |-> "none"]

\* An inventory of n items picked up earlier, which the map holds no more.
Carried(n) == [k \in 1 .. n |-> "carried"]

\* A floor as the generator and the turns before leave it: the player in a
\* corner over an item, those of the enemies a1, at a1_pos with the AI
\* a1_ai, and a2, a confused automaton two cells from the player, that foes
\* names, the NPCs of npcs below the player, and the zones of zs as zs makes
\* them.
InitCarrying(a1_template, a1_hp, a1_effects, equipped, confused, foes, npcs, zs, a1_ai, a1_pos, carried) ==
    /\ entities = {"player", "i1"} \cup foes \cup npcs \cup DOMAIN zs
    /\ template = [e \in Ids |->
                     CASE e = "player" -> "player"
                       [] e = "a1" /\ e \in foes -> a1_template
                       [] e = "a2" /\ e \in foes -> "rusty_automaton"
                       [] e = "i1" -> "healing_gel"
                       [] e \in DOMAIN zs -> zs[e].template
                       [] e \in npcs -> "shopkeep_npc"
                       [] OTHER -> "none"]
    /\ pos = [e \in Ids |->
                CASE e = "a1" /\ e \in foes -> a1_pos
                  [] e = "a2" /\ e \in foes -> <<2, 0>>
                  [] e \in DOMAIN zs -> zs[e].pos
                  [] e \in npcs -> <<0, 1>>
                  [] OTHER -> <<0, 0>>]
    /\ last_position = [e \in Ids |-> <<0, 0>>]
    /\ blocks_movement = [e \in Ids |-> e \in {"player"} \cup foes \cup npcs]
    /\ name = [e \in Ids |->
                 CASE e = "player" -> <<"player">>
                   [] e = "a1" /\ e \in foes -> <<a1_template>>
                   [] e = "a2" /\ e \in foes -> <<"rusty_automaton">>
                   [] e = "i1" -> <<"healing_gel">>
                   [] e \in DOMAIN zs -> <<zs[e].template>>
                   [] e \in npcs -> <<"shopkeep_npc">>
                   [] OTHER -> <<>>]
    /\ is_swarm = [e \in Ids |-> FALSE]
    /\ ai = [e \in Ids |->
               CASE e = "player" -> HostileEnemy(<<>>)
                 [] e = "a1" /\ e \in foes -> a1_ai
                 [] e = "a2" /\ e \in foes -> ConfusedEnemy(HostileEnemy(<<>>), 1)
                 [] OTHER -> NoAI]
    /\ max_hp = [e \in Ids |->
                   CASE e = "player" -> Fighter("player").hp
                     [] e = "a1" /\ e \in foes -> Fighter(a1_template).hp
                     [] e = "a2" /\ e \in foes -> Fighter("rusty_automaton").hp
                     [] OTHER -> 0]
    /\ hp = [max_hp EXCEPT !["a1"] = IF "a1" \in foes THEN a1_hp ELSE 0]
    /\ status_effects =
           [e \in Ids |-> IF e = "a1" /\ e \in foes THEN a1_effects ELSE <<>>]
    /\ last_actor_hurt_by = [e \in Ids |-> ""]
    /\ equipment = [e \in Ids |->
                      IF e = "player" THEN equipped ELSE NoEquipment]
    /\ inventory = [e \in Ids |-> IF e = "player" THEN Carried(carried) ELSE <<>>]
    /\ duration = [e \in Ids |-> IF e \in DOMAIN zs THEN zs[e].duration ELSE 0]
    /\ is_permanent = [e \in Ids |-> e \in DOMAIN zs /\ zs[e].is_permanent]
    /\ moves_around = [e \in Ids |-> e \in DOMAIN zs /\ zs[e].moves_around]
    /\ visible = compute_fov(<<0, 0>>)
    /\ credits = 0
    /\ current_xp = 0
    /\ player_confused_turns = confused
    /\ message_log = <<>>
    /\ pc = "input"
    /\ pending = {}
    /\ zones_to_remove = <<>>
    /\ turns = 0
    /\ op = [handler |-> "none", entity |-> "none", raised |-> FALSE]
    /\ died = <<>>
    /\ ticked = <<>>
    /\ phases = <<>>
    /\ performed = <<>>
    /\ future_event_handler = "none"
    /\ turn_pos = pos
    /\ zone_log = <<>>

\* The floor at the start of the game: the player carries nothing.
InitActors(a1_template, a1_hp, a1_effects, equipped, confused, foes, npcs, zs, a1_ai, a1_pos) ==
    InitCarrying(a1_template, a1_hp, a1_effects, equipped, confused, foes, npcs,
                 zs, a1_ai, a1_pos, 0)

\* The floor whose a1 is a HostileEnemy beside the player.
InitScene(a1_template, a1_hp, a1_effects, equipped, confused, foes, npcs, zs) ==
    InitActors(a1_template, a1_hp, a1_effects, equipped, confused, foes, npcs,
               zs, HostileEnemy(<<>>), <<1, 0>>)

\* A zone of factory gas at cell c: ten turns of drifting gas in the factories,
\* with what is left of its duration.
Gas(gas, c, left) ==
    [template |-> gas, pos |-> c, duration |-> left, is_permanent |-> FALSE,
     moves_around |-> TRUE]

\* The floor with both enemies and one gas in its last turn on a1.
InitFloor(a1_template, a1_hp, a1_effects, equipped, gas, confused, npcs) ==
    InitScene(a1_template, a1_hp, a1_effects, equipped, confused,
              {"a1", "a2"}, npcs, [z \in {"z1"} |-> Gas(gas, <<1, 0>>, 1)])

InitWith(a1_template, a1_hp, a1_effects, player_equipment, gas, confused) ==
    InitFloor(a1_template, a1_hp, a1_effects, player_equipment, gas, confused,
              {})

Init ==
    \E slime_hp \in {3, Fighter("slime_mold").hp},
       player_equipment \in {NoEquipment,
                             [weapon |-> "acid_kinfe",
                              armor |-> "spikey_chest_plate"]},
       gas \in ZoneTemplates,
       confused \in {0, ConfusedTurns} :
        /\ gas # "hydrogen_sulfide_gas" =>
               /\ slime_hp = Fighter("slime_mold").hp
               /\ player_equipment = NoEquipment
        /\ confused # 0 => gas = "nitrous_oxide_gas"
        /\ InitWith("slime_mold", slime_hp, <<>>, player_equipment, gas,
                    confused)

(***************************************************************************)
(* The turn, one step of handle_action at a time.                          *)
(***************************************************************************)
\* The player presses key k: the handler runs the action and, when it did
\* not fail, begins the enemies' turns.
PlayerKeys(keys, limit) ==
    /\ pc = "input"
    /\ turns < limit
    /\ ai[Player] # NoAI
    /\ \E k \in keys : \E w \in handle_events(World, k) :
          Install(w, [handler |-> "handle_events", entity |-> Player,
                      raised |-> FALSE, key |-> k])

PlayerTurn == PlayerKeys(Keys, MaxTurns)

EnemyTurn ==
    /\ pc = "enemy_turns"
    /\ \E e \in pending : \E w \in enemy_turn(World, e) :
          Install(w, [handler |-> "enemy_turn", entity |-> e, raised |-> FALSE])

StatusTurn ==
    /\ pc = "status_effects"
    /\ \E e \in pending : \E w \in status_turn(World, e) :
          Install(w, [handler |-> "status_turn", entity |-> e, raised |-> FALSE])

ZoneTurn ==
    /\ pc = "zones"
    /\ \E z \in pending : \E w \in zone_turn(World, z) :
          Install(w, [handler |-> "zone_turn", entity |-> z, raised |-> FALSE])

FovTurn ==
    /\ pc = "fov"
    /\ Install(fov_turn(World),
               [handler |-> "fov_turn", entity |-> Player, raised |-> FALSE])

Next == PlayerTurn \/ EnemyTurn \/ StatusTurn \/ ZoneTurn \/ FovTurn

Spec == Init /\ [][Next]_vars

(***************************************************************************)
(* Fights: a hunter beside the player, armored or not, and a spored slime  *)
(* about to burst beside the shopkeeper.                                   *)
(***************************************************************************)
SpikeyAndKinfe == [weapon |-> "acid_kinfe", armor |-> "spikey_chest_plate"]

InitFight ==
    \/ \E player_equipment \in {NoEquipment, SpikeyAndKinfe} :
           InitFloor("hunter_humanoid", Fighter("hunter_humanoid").hp, <<>>,
                     player_equipment, "hydrogen_sulfide_gas", 0, NpcIds)
    \/ InitFloor("slime_mold", 1, <<StatusEffect("Spored", MaxDuration, 1)>>,
                 NoEquipment, "hydrogen_sulfide_gas", 0, NpcIds)

PlayerFightTurn == PlayerKeys(Keys, MaxFightTurns)

NextFight ==
    PlayerFightTurn \/ EnemyTurn \/ StatusTurn \/ ZoneTurn \/ FovTurn

SpecFight == InitFight /\ [][NextFight]_vars

(***************************************************************************)
(* Zones: the player waits beside a slime while two zones are ticked, a    *)
(* drifting gas with one or two turns left and either a second gas or a    *)
(* zone made permanent and still by the arguments of Zone.                 *)
(***************************************************************************)
\* Zone(duration=left, is_permanent=True) with the default moves_around
StillZone(gas, c, left) ==
    [template |-> gas, pos |-> c, duration |-> left, is_permanent |-> TRUE,
     moves_around |-> FALSE]

InitZones ==
    \E left \in {1, 2},
       other \in {Gas("hydrogen_sulfide_gas", <<2, 0>>, MaxZoneTurns)}
                  \cup {StillZone("hydrogen_sulfide_gas", <<0, 0>>, d)
                        : d \in {-1, 0, 2}} :
        InitScene("slime_mold", Fighter("slime_mold").hp, <<>>, NoEquipment, 0,
                  {"a1"}, {},
                  [z \in ZoneIds |->
                     IF z = "z1"
                     THEN Gas("hydrogen_sulfide_gas", <<1, 0>>, left)
                     ELSE other])

\* The player waits.
WaitKey == {k \in Keys : k.key = "wait"}

PlayerZoneTurn == PlayerKeys(WaitKey, MaxZoneTurns)

NextZones ==
    PlayerZoneTurn \/ EnemyTurn \/ StatusTurn \/ ZoneTurn \/ FovTurn

SpecZones == InitZones /\ [][NextZones]_vars

(***************************************************************************)
(* Spawners: a mama mold, set up by its factory or not, in or out of the   *)
(* player's sight, idle for as long as its spawn rate or less, with a gas  *)
(* in its last turn on the far side of the floor.                          *)
(***************************************************************************)
InitSpawner ==
    \E a1_ai \in {SpawnerEnemy}
                  \cup {[setup(SpawnerEnemy, "acid_mold", SpawnRate)
                            EXCEPT !.spawn_timer = t]
                        : t \in {SpawnRate - 1, SpawnRate}},
       a1_pos \in {<<1, 0>>, <<2, 2>>} :
        InitActors("mama_mold", Fighter("mama_mold").hp, <<>>, NoEquipment, 0,
                   {"a1"}, {},
                   [z \in {"z1"} |-> Gas("hydrogen_sulfide_gas", <<3, 0>>, 1)],
                   a1_ai, a1_pos)

PlayerSpawnerTurn == PlayerKeys(WaitKey, MaxSpawnerTurns)

NextSpawner ==
    PlayerSpawnerTurn \/ EnemyTurn \/ StatusTurn \/ ZoneTurn \/ FovTurn

SpecSpawner == InitSpawner /\ [][NextSpawner]_vars

(***************************************************************************)
(* Confusion: a hunter humanoid beside the player or one cell further,     *)
(* whose hostile AI, a path left in it, has been wrapped in a ConfusedEnemy *)
(* of 0 to MaxConfusedTurns turns; the player waits one turn more than     *)
(* that.                                                                   *)
(***************************************************************************)
InitConfused ==
    \E n \in 0 .. MaxConfusedTurns, a1_pos \in {<<1, 0>>, <<2, 0>>} :
        InitActors("hunter_humanoid", Fighter("hunter_humanoid").hp, <<>>,
                   NoEquipment, 0, {"a1"}, {},
                   [z \in {"z1"} |-> Gas("hydrogen_sulfide_gas", <<3, 0>>, 1)],
                   ConfusedEnemy(HostileEnemy(<<<<0, 1>>>>), n), a1_pos)

PlayerConfusedTurn == PlayerKeys(WaitKey, MaxConfusedTurns + 1)

NextConfused ==
    PlayerConfusedTurn \/ EnemyTurn \/ StatusTurn \/ ZoneTurn \/ FovTurn

SpecConfused == InitConfused /\ [][NextConfused]_vars

(***************************************************************************)
(* Deaths: a slime mold at its last hit point beside the player, under a   *)
(* gas that has turns left, and the confused automaton behind it; the      *)
(* player, acid kinfe in hand, strikes the slime mold or waits.            *)
(***************************************************************************)
InitDeath ==
    \E gas \in {"nitrous_oxide_gas", "hydrogen_sulfide_gas"} :
        InitScene("slime_mold", 1, <<>>, SpikeyAndKinfe, 0, {"a1", "a2"}, {},
                  [z \in {"z1"} |-> Gas(gas, <<1, 0>>, MaxDuration)])

StrikeOrWait == {k \in Keys : k.key = "wait" \/ (k.dx = 1 /\ k.dy = 0)}

PlayerDeathTurn == PlayerKeys(StrikeOrWait, MaxDeathTurns)

NextDeath ==
    PlayerDeathTurn \/ EnemyTurn \/ StatusTurn \/ ZoneTurn \/ FovTurn

SpecDeath == InitDeath /\ [][NextDeath]_vars

(***************************************************************************)
(* Picking up: the player stands on the healing gel with an inventory that *)
(* is empty, one short of full, or full, a slime mold out of sight; the    *)
(* player picks up, waits, or steps off the gel and back.                  *)
(***************************************************************************)
InitPickup ==
    \E carried \in {0, capacity("player") - 1, capacity("player")} :
        InitCarrying("slime_mold", Fighter("slime_mold").hp, <<>>, NoEquipment,
                     0, {"a1"}, {},
                     [z \in {"z1"} |-> Gas("hydrogen_sulfide_gas", <<3, 0>>, 1)],
                     HostileEnemy(<<>>), <<2, 2>>, carried)

PickupKeys ==
    {k \in Keys : k.key \in {"pickup", "wait"} \/ (k.dx = 0 /\ k.dy # 0)}

PlayerPickupTurn == PlayerKeys(PickupKeys, MaxPickupTurns)

NextPickup ==
    PlayerPickupTurn \/ EnemyTurn \/ StatusTurn \/ ZoneTurn \/ FovTurn

SpecPickup == InitPickup /\ [][NextPickup]_vars

(***************************************************************************)
(* The hunt: a hunter humanoid on the far side of the pillar, no path in   *)
(* its AI yet, the confused automaton between it and the player, a gas in  *)
(* its last turn in the corner; the player waits or walks along the wall.  *)
(***************************************************************************)
InitHunt ==
    \E a1_pos \in {<<3, 1>>, <<3, 2>>} :
        InitActors("hunter_humanoid", Fighter("hunter_humanoid").hp, <<>>,
                   NoEquipment, 0, {"a1", "a2"}, {},
                   [z \in {"z1"} |-> Gas("hydrogen_sulfide_gas", <<3, 0>>, 1)],
                   HostileEnemy(<<>>), a1_pos)

WalkKeys == {k \in Keys : k.key = "wait" \/ (k.key = "move" /\ k.dx = 0)}

PlayerHuntTurn == PlayerKeys(WalkKeys, MaxHuntTurns)

NextHunt ==
    PlayerHuntTurn \/ EnemyTurn \/ StatusTurn \/ ZoneTurn \/ FovTurn

SpecHunt == InitHunt /\ [][NextHunt]_vars

(***************************************************************************)
(* Spores: a slime mold at its last or last but one hit point, full of     *)
(* spores alone or poisoned as well, beside the player or behind the       *)
(* pillar; the player waits.                                               *)
(***************************************************************************)
SporedLists ==
    {<<StatusEffect("Spored", MaxDuration, 1)>>,
     <<StatusEffect("Poisoned", MaxDuration, 1),
       StatusEffect("Spored", MaxDuration, 1)>>,
     <<StatusEffect("Spored", MaxDuration, 1),
       StatusEffect("Poisoned", MaxDuration, 1)>>}

InitSpores ==
    \E a1_hp \in 1 .. 2, list \in SporedLists, a1_pos \in {<<1, 0>>, <<2, 2>>} :
        InitActors("slime_mold", a1_hp, list, NoEquipment, 0, {"a1", "a2"}, {},
                   [z \in {"z1"} |-> Gas("hydrogen_sulfide_gas", <<3, 0>>, 1)],
                   HostileEnemy(<<>>), a1_pos)

PlayerSporeTurn == PlayerKeys(WaitKey, MaxSporeTurns)

NextSpores ==
    PlayerSporeTurn \/ EnemyTurn \/ StatusTurn \/ ZoneTurn \/ FovTurn

SpecSpores == InitSpores /\ [][NextSpores]_vars

(***************************************************************************)
(* Laughing gas: a slime mold out of the player's sight under a nitrous    *)
(* oxide gas in its last turn or its last but one; the player waits until  *)
(* the confusion has run its course.                                       *)
(***************************************************************************)
InitNitrous ==
    \E left \in 1 .. 2 :
        InitActors("slime_mold", Fighter("slime_mold").hp, <<>>, NoEquipment, 0,
                   {"a1"}, {},
                   [z \in {"z1"} |-> Gas("nitrous_oxide_gas", <<3, 2>>, left)],
                   HostileEnemy(<<>>), <<3, 2>>)

PlayerNitrousTurn == PlayerKeys(WaitKey, MaxNitrousTurns)

NextNitrous ==
    PlayerNitrousTurn \/ EnemyTurn \/ StatusTurn \/ ZoneTurn \/ FovTurn

SpecNitrous == InitNitrous /\ [][NextNitrous]_vars

(***************************************************************************)
(* Path finding: one call of get_path_to for an actor on a square map of   *)
(* MaxPathWidth cells a side that is bare, or has a pillar,                *)
(* a wall across it, or a wall with a gap; no other blocking entity stands *)
(* on it, or one on the floor and one out on (3, 3).  The call is from a   *)
(* corner or from the floor beside the wall to any cell.                   *)
(***************************************************************************)
Grid(n) == (0 .. n - 1) \X (0 .. n - 1)

PathWalls(n) ==
    {{}, {<<1, 1>>}, {<<2, j>> : j \in 0 .. n - 1}, {<<2, j>> : j \in 1 .. n - 1}}

PathCrowds == {{}, {<<1, 0>>, <<3, 3>>}}

\* Where the actor stands: in a corner, or on the floor on either side of
\* the wall.
PathRoots(n) == {<<0, 0>>, <<n - 1, n - 1>>, <<0, n - 1>>, <<1, 2>>, <<3, 1>>}

\* The blocking entities on each cell: the actor on its own, the others where
\* they stand.
Crowd(cells, root, others) ==
    [c \in cells |-> (IF c = root THEN 1 ELSE 0) + (IF c \in others THEN 1 ELSE 0)]

InitPath ==
    InitWith("slime_mold", Fighter("slime_mold").hp, <<>>, NoEquipment,
             "hydrogen_sulfide_gas", 0)

PathCall ==
    /\ turns < 1
    /\ \E n \in {MaxPathWidth} :
       \E walls \in PathWalls(n), others \in PathCrowds :
       \E root \in PathRoots(n) \ walls, dest \in Grid(n) :
       \E path \in path_to(Grid(n),
                           cost_array(Grid(n), walls, Crowd(Grid(n), root, others)),
                           root, dest) :
          Install([World EXCEPT !.turns = @ + 1],
                  [handler |-> "get_path_to", entity |-> "a1", raised |-> FALSE,
                   width |-> n, walls |-> walls, others |-> others,
                   root |-> root, dest |-> dest, path |-> path])

\* The blocking entities on each cell when heap of them stand on cell c.
Heap(cells, c, heap) == [d \in cells |-> IF d = c THEN heap ELSE 0]

\* The cost grid alone, built for a floor where up to MaxHeap blocking
\* entities stand on one cell, floor or wall: every spawn of a SpawnerEnemy
\* lands on a cell that holds a blocking entity already.
CostCall ==
    /\ turns < 1
    /\ \E n \in {MaxPathWidth} :
       \E walls \in PathWalls(n), c \in Grid(n), heap \in 0 .. MaxHeap :
          Install([World EXCEPT !.turns = @ + 1],
                  [handler |-> "cost_array", entity |-> "a1", raised |-> FALSE,
                   width |-> n, walls |-> walls, crowd |-> Heap(Grid(n), c, heap),
                   cost |-> cost_array(Grid(n), walls, Heap(Grid(n), c, heap))])

NextPath == PathCall \/ CostCall

SpecPath == InitPath /\ [][NextPath]_vars

(***************************************************************************)
(* The unit harness: calls of the methods of the Fighter of actor a1, and  *)
(* of WaitAction for it, on the same floor, where a1 is a slime mold or a  *)
(* rusty automaton, whole or wounded, free of effects or under effects it  *)
(* is not immune to.  turns counts the calls.                              *)
(***************************************************************************)
Subject == "a1"

\* The lists of effects an actor of template t starts with: none, one about
\* to expire, and one about to expire ahead of another.
InitialEffects(t) ==
    {list \in {<<>>,
               <<StatusEffect("Spored", 1, 1)>>,
               <<StatusEffect("Poisoned", 1, 1), StatusEffect("Bleeding", 2, 1)>>} :
        \A i \in 1 .. Len(list) : list[i].cls \notin Fighter(t).immune_effects}

InitUnit ==
    \E t \in {"slime_mold", "rusty_automaton"} :
        \E h \in {MaxAmount, Fighter(t).hp}, list \in InitialEffects(t) :
            InitWith(t, h, list, NoEquipment, "hydrogen_sulfide_gas", 0)

\* The values written to hp: around 0 and around max_hp.
HpValues == (-1 .. 1) \cup {max_hp[Subject], max_hp[Subject] + 1}

\* The effects applied: every kind, with the durations the bounds allow and
\* the least and the largest value.
Effects ==
    {StatusEffect(c, d, v) :
        c \in EffectClasses, d \in 1 .. MaxDuration, v \in {1, MaxAmount}}

\* The step to an outcome of a call.
Called(w, h) == Install([w EXCEPT !.turns = @ + 1], h)

UnitSetHp ==
    /\ turns < MaxCalls
    /\ \E v \in HpValues : \E w \in set_hp(World, Subject, v) :
          Called(w, [handler |-> "set_hp", entity |-> Subject,
                     raised |-> FALSE, value |-> v])

UnitHeal ==
    /\ turns < MaxCalls
    /\ \E n \in 1 .. MaxAmount : \E w \in heal(World, Subject, n) :
          Called(w, [handler |-> "heal", entity |-> Subject,
                     raised |-> FALSE, value |-> n])

UnitTakeDamage ==
    /\ turns < MaxCalls
    /\ \E n \in 1 .. MaxAmount : \E w \in take_damage(World, Subject, n) :
          Called(w, [handler |-> "take_damage", entity |-> Subject,
                     raised |-> FALSE, value |-> n])

UnitApply ==
    /\ turns < MaxCalls
    /\ \E effect \in Effects :
          \E w \in apply_status_effect(World, Subject, effect) :
              Called(w, [handler |-> "apply_status_effect", entity |-> Subject,
                         raised |-> FALSE, effect |-> effect])

UnitUpdate ==
    /\ turns < MaxCalls
    /\ \E w \in update_status_effects(World, Subject) :
          Called(w, [handler |-> "update_status_effects", entity |-> Subject,
                     raised |-> FALSE])

UnitWait ==
    /\ turns < MaxCalls
    /\ \E w \in WaitAction(World, Subject) :
          Called(w, [handler |-> "WaitAction", entity |-> Subject,
                     raised |-> FALSE])

NextUnit ==
    UnitSetHp \/ UnitHeal \/ UnitTakeDamage \/ UnitApply \/ UnitUpdate \/ UnitWait

SpecUnit == InitUnit /\ [][NextUnit]_vars

(***************************************************************************)
(* The properties.                                                         *)
(***************************************************************************)
\* How often x occurs in the sequence seq.
Count(seq, x) == Cardinality({i \in 1 .. Len(seq) : seq[i] = x})

\* The handlers that write hp and nothing else.
HpWriters == {"set_hp", "heal", "take_damage"}

\* C1: in every reachable state every combatant's hp lies in [0, max_hp],
\* whatever value a write tried to store.
C1_HpWithinBounds ==
    \A e \in ActorIds : 0 <= hp[e] /\ hp[e] <= max_hp[e]

\* A write of a negative value has been stored as 0.
C1_Witness ==
    /\ op.handler = "set_hp"
    /\ op.value < 0
    /\ hp[Subject] = 0

\* C2: a write to the hp of e runs die() at most once, and exactly when it
\* leaves hp at 0 while e still had an AI; since die() takes the AI away, it
\* runs once over any sequence of writes, and a write to an entity that has
\* no AI any more leaves its name, AI, blocking flag, XP and credits alone.
C2_DiesExactlyOnce ==
    [][op'.handler \in HpWriters =>
          LET e == op'.entity
          IN  /\ Count(died', e) <= 1
              /\ Count(died', e) = 1 <=> (ai[e] # NoAI /\ hp'[e] = 0)
              /\ Count(died', e) = 1 => ai'[e] = NoAI
              /\ ai[e] = NoAI =>
                    /\ ai'[e] = NoAI
                    /\ name'[e] = name[e]
                    /\ blocks_movement'[e] = blocks_movement[e]
                    /\ current_xp' = current_xp
                    /\ credits' = credits]_vars

\* A write that leaves the hp of a dead entity at 0 has not run die().
C2_Witness ==
    /\ op.handler = "set_hp"
    /\ op.value <= 0
    /\ hp[Subject] = 0
    /\ ai[Subject] = NoAI
    /\ died = <<>>
    /\ name[Subject][1] = "Corpse of"
    /\ Len(name[Subject]) = 2

\* The phases of a turn, in the order of the specification.
PhaseOrder == <<"player", "enemy_turns", "status_effects", "zones", "fov">>

\* seq is an initial part of PhaseOrder.
IsPrefix(seq) ==
    /\ Len(seq) <= Len(PhaseOrder)
    /\ \A i \in 1 .. Len(seq) : seq[i] = PhaseOrder[i]

\* The handler that runs in each phase.
PhaseOf(h) ==
    CASE h = "enemy_turn" -> "enemy_turns"
      [] h = "status_turn" -> "status_effects"
      [] h = "zone_turn" -> "zones"
      [] h = "fov_turn" -> "fov"
      [] OTHER -> "player"

\* C3: the phases of a turn begin in the order player, enemies, status
\* effects, zones, visibility; every step belongs to the phase begun last;
\* and a phase begins only in the step that visits the last entity the
\* phase before it had left.
C3_PhasesInOrder ==
    /\ [](IsPrefix(phases) /\ (pc # "input" => phases[Len(phases)] = pc))
    /\ [][/\ op'.handler # "handle_events" => PhaseOf(op'.handler) = pc
          /\ (op'.handler # "handle_events" /\ phases' # phases) =>
                 /\ pending \subseteq {op'.entity}
                 /\ Len(phases') > Len(phases)
                 /\ SubSeq(phases', 1, Len(phases)) = phases
          /\ (op'.handler \notin {"handle_events", "fov_turn"}
                /\ phases' = phases) =>
                 pending' = pending \ {op'.entity} /\ pending' # {}]_vars

\* A whole turn has run: all five phases have begun, and an enemy has acted.
C3_Witness ==
    /\ pc = "input"
    /\ turns = 1
    /\ phases = PhaseOrder
    /\ performed # <<>>

\* The fields of the world that a failed action of the player leaves alone.
Untouched ==
    /\ entities' = entities
    /\ template' = template
    /\ pos' = pos
    /\ last_position' = last_position
    /\ blocks_movement' = blocks_movement
    /\ name' = name
    /\ is_swarm' = is_swarm
    /\ ai' = ai
    /\ hp' = hp
    /\ max_hp' = max_hp
    /\ status_effects' = status_effects
    /\ last_actor_hurt_by' = last_actor_hurt_by
    /\ equipment' = equipment
    /\ inventory' = inventory
    /\ duration' = duration
    /\ is_permanent' = is_permanent
    /\ moves_around' = moves_around
    /\ visible' = visible
    /\ credits' = credits
    /\ current_xp' = current_xp

\* C4: when the action of the player raises Impossible, the handler adds one
\* message and nothing else happens: no later phase begins, no turn is
\* counted, and the entities, positions, last positions, hp, effects,
\* inventories, zone durations and AIs are what they were.  (The key handler
\* of a confused player has counted the confusion down, and may have said
\* so, before it made the action.)
C4_FailedActionChangesNothing ==
    [][(op'.handler = "handle_events" /\ op'.raised) =>
          /\ Untouched
          /\ pc' = "input"
          /\ pending' = {}
          /\ turns' = turns
          /\ phases' = <<"player">>
          /\ performed' = <<>> /\ ticked' = <<>> /\ died' = <<>>
          /\ Count(message_log', <<"impossible">>) = 1
          /\ \A i \in 1 .. Len(message_log') :
                message_log'[i] \in {<<"impossible">>, <<"senses">>}
          /\ player_confused_turns = 0 =>
                /\ message_log' = <<<<"impossible">>>>
                /\ player_confused_turns' = 0]_vars

\* The player's action has raised Impossible, beside a living enemy.
C4_Witness ==
    /\ op.handler = "handle_events"
    /\ op.raised
    /\ message_log = <<<<"impossible">>>>
    /\ ai["a1"] # NoAI

\* C5: when the action of an AI raises Impossible in the enemies' phase,
\* nothing is logged, the for statement goes on with the actors it has yet
\* to visit, and after the last of them the status effects, the zones and
\* the visibility follow; no phase is ever left with nothing to run.
C5_AIFailureIsSwallowed ==
    /\ [](/\ pc \in {"enemy_turns", "status_effects", "zones"} => pending # {}
          /\ (pc = "input" /\ Len(phases) > 1) => phases = PhaseOrder)
    /\ [][(op'.handler = "enemy_turn" /\ op'.raised) =>
             /\ message_log' = <<>>
             /\ IF pending \ {op'.entity} # {}
                THEN /\ pc' = "enemy_turns"
                     /\ pending' = pending \ {op'.entity}
                ELSE /\ pc' \in {"status_effects", "zones", "fov"}
                     /\ phases'[3] = "status_effects"]_vars

\* The action of an AI has raised Impossible while another actor was still
\* to act.
C5_Witness ==
    /\ op.handler = "enemy_turn"
    /\ op.raised
    /\ pc = "enemy_turns"
    /\ pending # {}
    /\ \E e \in pending : ai[e] # NoAI

\* The actors that are alive and are not the player.
Enemies == {e \in entities \cap ActorIds : ai[e] # NoAI} \ {Player}

\* C6: in the enemies' phase the AI of a visited actor is performed exactly
\* when the actor is alive, no actor is performed twice, the player never,
\* and every living actor that has not acted yet is still to be visited.
C6_EachEnemyActsOnce ==
    /\ [](/\ \A e \in ActorIds : Count(performed, e) <= 1
          /\ Count(performed, Player) = 0
          /\ pc = "enemy_turns" =>
                \A e \in Enemies : Count(performed, e) = 1 \/ e \in pending)
    /\ [][op'.handler = "enemy_turn" =>
             /\ op'.entity \in pending
             /\ op'.entity # Player
             /\ performed' = IF ai[op'.entity] # NoAI
                             THEN Append(performed, op'.entity)
                             ELSE performed
             /\ (pc' # "enemy_turns") =>
                    \A e \in Enemies' : Count(performed', e) = 1]_vars

\* The for statement has visited an actor that died earlier in the phase,
\* and has not performed its AI.
C6_Witness ==
    /\ op.handler = "enemy_turn"
    /\ ai[op.entity] = NoAI
    /\ died = <<>>
    /\ Count(performed, op.entity) = 0
    /\ performed # <<>>

\* The kinds of the entries of a list of effects.
Kinds(list) == {list[i].cls : i \in 1 .. Len(list)}

\* C7: a combatant never holds two entries of one kind, and applying a kind
\* that is present adds the duration applied to the duration of its entry,
\* leaving the list as long as it was and every other entry as it was.
C7_OneEntryPerKind ==
    /\ [](\A e \in ActorIds :
             \A i, j \in 1 .. Len(status_effects[e]) :
                 status_effects[e][i].name = status_effects[e][j].name => i = j)
    /\ [][(/\ op'.handler = "apply_status_effect"
           /\ op'.effect.cls \in Kinds(status_effects[op'.entity])) =>
             LET old == status_effects[op'.entity]
                 new == status_effects'[op'.entity]
             IN  /\ Len(new) = Len(old)
                 /\ \A i \in 1 .. Len(old) :
                       new[i] = IF old[i].cls = op'.effect.cls
                                THEN [old[i] EXCEPT !.duration =
                                         old[i].duration + op'.effect.duration]
                                ELSE old[i]]_vars

\* A Poisoned of 3 turns applied to a Poisoned of 4 turns has made one
\* Poisoned of 7 turns.
C7_Witness ==
    /\ op.handler = "apply_status_effect"
    /\ op.effect.cls = "Poisoned"
    /\ op.effect.duration = 3
    /\ Len(status_effects[Subject]) = 1
    /\ status_effects[Subject][1].cls = "Poisoned"
    /\ status_effects[Subject][1].duration = 7

\* C8: applying a kind the combatant is immune to changes nothing: the list
\* of effects is what it was and no message is added.
C8_ImmuneIsNoOp ==
    [][(/\ op'.handler = "apply_status_effect"
        /\ op'.effect.cls \in
               Fighter(template[op'.entity]).immune_effects) =>
          /\ status_effects' = status_effects
          /\ message_log' = <<>>
          /\ hp' = hp
          /\ ai' = ai]_vars

\* Bleeding has been applied to the rusty automaton, which is immune to it
\* and holds another effect.
C8_Witness ==
    /\ op.handler = "apply_status_effect"
    /\ op.effect.cls = "Bleeding"
    /\ template[Subject] = "rusty_automaton"
    /\ status_effects[Subject] # <<>>

\* C9: one call of update_status_effects ticks every effect the combatant
\* held when the call began exactly once.
C9_EveryEffectTickedOnce ==
    [][op'.handler = "update_status_effects" =>
          \A c \in Kinds(status_effects[op'.entity]) :
              Cardinality({i \in 1 .. Len(ticked') : ticked'[i].cls = c}) = 1]_vars

\* The "no longer" messages of log about kind c of entity e.
NoLonger(log, e, c) == Count(log, <<"no longer", e, EffectName(c)>>)

\* C10: every tick takes 1 from the duration of the effect; after
\* update_status_effects the combatant holds no effect whose duration is 0
\* or less; and an effect is announced as gone at most once, only when a
\* tick has brought it to 0 or less, and always then if its host lives.
C10_TicksCountDownAndExpire ==
    [][op'.handler = "update_status_effects" =>
          LET e == op'.entity
              expired(c) == \E i \in 1 .. Len(ticked') :
                               /\ ticked'[i].cls = c
                               /\ ticked'[i].after <= 0
          IN  /\ \A i \in 1 .. Len(ticked') :
                    ticked'[i].after = ticked'[i].before - 1
              /\ \A i \in 1 .. Len(status_effects'[e]) :
                    status_effects'[e][i].duration > 0
              /\ \A c \in EffectClasses :
                    /\ NoLonger(message_log', e, c) <= 1
                    /\ NoLonger(message_log', e, c) = 1 =>
                          expired(c) /\ c \notin Kinds(status_effects'[e])
                    /\ (expired(c) /\ Count(died', e) = 0) =>
                          NoLonger(message_log', e, c) = 1]_vars

\* An effect has been ticked to 0 and announced as gone, while another one
\* goes on.
C10_Witness ==
    /\ op.handler = "update_status_effects"
    /\ \E i \in 1 .. Len(ticked) : ticked[i].after = 0
    /\ \E c \in EffectClasses : NoLonger(message_log, Subject, c) = 1
    /\ status_effects[Subject] # <<>>
    /\ ai[Subject] # NoAI


\* C11: a Bleeding tick leaves the hit points of its host alone when the
\* host stands where it stood when the turn began, whether it waited,
\* attacked or tried a move that was rejected.
C11_BleedingOnlyAfterMove ==
    [][(/\ op'.handler = "status_turn"
        /\ Len(status_effects[op'.entity]) = 1
        /\ status_effects[op'.entity][1].cls = "Bleeding"
        /\ pos[op'.entity] = turn_pos[op'.entity])
       => hp'[op'.entity] = hp[op'.entity]]_vars

\* The message of a melee attack of kind k that the last handler logged.
MeleeLogged(log, k) ==
    {m \in {log[i] : i \in 1 .. Len(log)} : Len(m) = 3 /\ m[1] = k}

C13_DamageIsPowerLessDefense ==
    [][/\ \A m \in MeleeLogged(message_log', "attacks") :
            /\ power(World, m[2]) - defense(World, m[3]) > 0
            /\ hp'[m[3]] =
                   Max(0, hp[m[3]] - (power(World, m[2]) - defense(World, m[3])))
       /\ \A m \in MeleeLogged(message_log', "no damage") :
            /\ power(World, m[2]) - defense(World, m[3]) <= 0
            /\ hp' = hp
            /\ status_effects' = status_effects
            /\ message_log' = <<m>>]_vars

\* The player, of power 2, has hit the hunter, of defense 1, for 1.
C13_Witness ==
    /\ op.handler = "handle_events"
    /\ <<"attacks", Player, "a1">> \in MeleeLogged(message_log, "attacks")
    /\ power(World, Player) = 2
    /\ defense(World, "a1") = 1
    /\ hp["a1"] = max_hp["a1"] - 1


\* The damaging hits of the last handler on a wearer of the spikey plate.
HitsOnSpikes(log, worn) ==
    {m \in MeleeLogged(log, "attacks") : worn[m[3]].armor = "spikey_chest_plate"}

\* C14: on a damaging hit the on-hit hook of the defender's armor spends its
\* status effect and its flat damage on the attacker: the attacker loses 2
\* hit points and, unless immune or killed, bleeds for half the damage;
\* the defender loses the damage of the hit and nothing more, and its
\* effects are left to the attacker's weapon.
C14_ArmorHookHitsAttacker ==
    [][\A m \in HitsOnSpikes(message_log', equipment) :
          LET attacker == m[2]
              defender == m[3]
              damage == power(World, attacker) - defense(World, defender)
          IN  /\ hp'[attacker] = Max(0, hp[attacker] - 2)
              /\ (/\ hp[attacker] > 2
                  /\ "Bleeding" \notin immune_effects(World, attacker)) =>
                     "Bleeding" \in Kinds(status_effects'[attacker])
              /\ (/\ hp[attacker] > 2
                  /\ "Bleeding" \notin immune_effects(World, attacker)
                  /\ "Bleeding" \notin Kinds(status_effects[attacker])) =>
                     status_effects'[attacker] =
                         Append(status_effects[attacker],
                                StatusEffect("Bleeding", 6, damage \div 2))
              /\ hp'[defender] = Max(0, hp[defender] - damage)
              /\ (equipment[attacker].weapon = "none" /\ hp'[defender] > 0) =>
                     status_effects'[defender] = status_effects[defender]]_vars

\* The hunter has hit the armored player and bleeds for it.
C14_Witness ==
    /\ op.handler = "enemy_turn"
    /\ HitsOnSpikes(message_log, equipment) # {}
    /\ "Bleeding" \in Kinds(status_effects[op.entity])

\* C14 as stated: the hook spends its status effect and its flat damage on
\* the defender and leaves the attacker's hit points and effects alone.
C14_ArmorHookHitsDefender ==
    [][\A m \in HitsOnSpikes(message_log', equipment) :
          LET attacker == m[2]
              defender == m[3]
              damage == power(World, attacker) - defense(World, defender)
          IN  /\ hp'[defender] = Max(0, hp[defender] - damage - 2)
              /\ (/\ hp[defender] > damage + 2
                  /\ "Bleeding" \notin immune_effects(World, defender)) =>
                     "Bleeding" \in Kinds(status_effects'[defender])
              /\ hp'[attacker] = hp[attacker]
              /\ status_effects'[attacker] = status_effects[attacker]]_vars

\* The cell the player's move key points at.
BumpDest == <<pos[Player][1] + op'.key.dx, pos[Player][2] + op'.key.dy>>

\* The living combatants and the NPCs of a cell.
CombatantsAt(c) == {a \in ActorIds \cap entities : ai[a] # NoAI /\ pos[a] = c}
NPCsAt(c) == {n \in NpcIds \cap entities : pos[n] = c}

\* The targets of the melee attacks by e that a log reports.
MeleeTargets(log, e) ==
    {m[3] : m \in {m \in MeleeLogged(log, "dodges")
                          \cup MeleeLogged(log, "attacks")
                          \cup MeleeLogged(log, "no damage") : m[2] = e}}

\* C15: a bump into a cell that holds a living combatant is a melee attack
\* on it and leaves the bumper where it is, whatever else the cell holds or
\* allows; failing a combatant, a bump into an NPC interacts with it; failing
\* both, the bump is the move, which succeeds or is rejected.
C15_BumpPriority ==
    [][(/\ op'.handler = "handle_events"
        /\ player_confused_turns = 0
        /\ op'.key.key = "move") =>
          /\ CombatantsAt(BumpDest) # {} =>
                /\ MeleeTargets(message_log', Player) # {}
                /\ MeleeTargets(message_log', Player) \subseteq CombatantsAt(BumpDest)
                /\ pos'[Player] = pos[Player]
                /\ future_event_handler' = "none"
          /\ (CombatantsAt(BumpDest) = {} /\ NPCsAt(BumpDest) # {}) =>
                /\ \E n \in NPCsAt(BumpDest) :
                      /\ message_log' = <<<<"interact", n>>>>
                      /\ future_event_handler' = n
                /\ pos'[Player] = pos[Player]
                /\ hp' = hp
          /\ (CombatantsAt(BumpDest) = {} /\ NPCsAt(BumpDest) = {}) =>
                /\ MeleeTargets(message_log', Player) = {}
                /\ future_event_handler' = "none"
                /\ \/ pos'[Player] = BumpDest
                   \/ pos'[Player] = pos[Player]
                      /\ message_log' = <<<<"impossible">>>>]_vars

\* The player has bumped into a cell that holds a living combatant and an
\* NPC, and has attacked the combatant.
C15_Witness ==
    /\ op.handler = "handle_events"
    /\ \E t \in MeleeTargets(message_log, Player) : NPCsAt(pos[t]) # {}


\* A move to cell c is to be rejected: c is off the map, is not walkable or
\* holds an entity that blocks movement.
Rejected(c) ==
    \/ c \notin Cells
    \/ c \in Walls
    \/ \E b \in entities : blocks_movement[b] /\ pos[b] = c

\* C16: a move to a cell that is off the map, not walkable or held by a
\* blocking entity fails as impossible and leaves every position and last
\* position as it was; any other move puts the mover on the destination
\* and records the cell it left as its last position.  The first conjunct
\* is about every move the actors about to act could try, the second about
\* the moves the player's keys make.
C16_MoveOrImpossible ==
    /\ [](\A e \in ActorIds \cap entities, d \in Directions :
            (\/ pc = "input" /\ e = Player /\ ai[e] # NoAI
             \/ pc = "enemy_turns" /\ e \in pending) =>
              LET dest == <<pos[e][1] + d[1], pos[e][2] + d[2]>>
                  outcomes == MovementAction(World, e, d[1], d[2])
              IN  /\ outcomes # {}
                  /\ \A w \in outcomes :
                        IF Rejected(dest)
                        THEN /\ w.raised
                             /\ w.pos = pos
                             /\ w.last_position = last_position
                        ELSE /\ ~w.raised
                             /\ w.pos = [pos EXCEPT ![e] = dest]
                             /\ w.last_position =
                                    [last_position EXCEPT ![e] = pos[e]])
    /\ [][(/\ op'.handler = "handle_events"
           /\ player_confused_turns = 0
           /\ op'.key.key = "move"
           /\ CombatantsAt(BumpDest) = {}
           /\ NPCsAt(BumpDest) = {}) =>
             IF Rejected(BumpDest)
             THEN /\ message_log' = <<<<"impossible">>>>
                  /\ pos' = pos
                  /\ last_position' = last_position
             ELSE /\ pos'[Player] = BumpDest
                  /\ last_position'[Player] = pos[Player]]_vars

\* The player's move into the wall has been rejected.
C16_Witness ==
    /\ op.handler = "handle_events"
    /\ op.key.key = "move"
    /\ <<pos[Player][1] + op.key.dx, pos[Player][2] + op.key.dy>> \in Walls
    /\ message_log = <<<<"impossible">>>>

\* C17: a permanent zone stays in the entity set with the duration it has,
\* positive or not, through every step of every turn.
C17_PermanentZoneStays ==
    [][\A z \in ZoneIds \cap entities :
          is_permanent[z] =>
              /\ z \in entities'
              /\ is_permanent'[z]
              /\ duration'[z] = duration[z]
              /\ \A i \in 1 .. Len(zones_to_remove') : zones_to_remove'[i] # z]_vars

\* A permanent zone whose duration is not positive has been through the
\* zone phases of all the turns.
C17_Witness ==
    /\ turns = MaxZoneTurns
    /\ \E z \in ZoneIds \cap entities : is_permanent[z] /\ duration[z] <= 0

\* C18: a zone that is not permanent and starts with a duration d of 1 or
\* more is there, with one turn less to go, when each of the first d turns
\* begins, and is out of the entity set when the turn after them would; the
\* tick that ends it still invokes its component on the living combatants
\* of its cell, who are poisoned by it unless immune, before it is removed
\* at the end of that zone phase.
C18_ZoneLastsItsDuration ==
    /\ \A z \in ZoneIds, d \in 1 .. MaxZoneTurns :
          (z \in entities /\ ~is_permanent[z] /\ duration[z] = d) =>
              [](pc = "input" =>
                    IF turns < d
                    THEN z \in entities /\ duration[z] = d - turns
                    ELSE z \notin entities)
    /\ [][(/\ op'.handler = "zone_turn"
           /\ ~is_permanent[op'.entity]
           /\ duration[op'.entity] = 1) =>
             /\ Len(zone_log') = 1
             /\ zone_log'[1].zone = op'.entity
             /\ zone_log'[1].invoked = CombatantsAt(zone_log'[1].cell)
             /\ \A a \in zone_log'[1].invoked :
                   "Poisoned" \notin immune_effects(World, a) =>
                       "Poisoned" \in Kinds(status_effects'[a])
             /\ pc' # "zones" => op'.entity \notin entities']_vars

\* A gas that began with more than a turn to go has poisoned the slime it
\* had drifted onto in its last tick and is gone.
C18_Witness ==
    /\ op.handler = "zone_turn"
    /\ turns >= 1
    /\ op.entity \notin entities
    /\ Len(zone_log) = 1
    /\ zone_log[1].duration = 1
    /\ zone_log[1].invoked # {}
    /\ \A a \in zone_log[1].invoked : "Poisoned" \in Kinds(status_effects[a])

\* C19: a zone tick invokes the zone's component on the living combatants
\* with hit points that stand in the zone's cell and on nobody else: an
\* actor in another cell and a corpse keep their status effects and their
\* AI, and the player out of the cell keeps its confusion.
C19_ZoneTicksItsCellOnly ==
    [][op'.handler = "zone_turn" =>
          /\ Len(zone_log') = 1
          /\ zone_log'[1].zone = op'.entity
          /\ op'.entity \in entities' => zone_log'[1].cell = pos'[op'.entity]
          /\ zone_log'[1].invoked =
                 {a \in ActorIds \cap entities :
                     ai[a] # NoAI /\ hp[a] > 0 /\ pos[a] = zone_log'[1].cell}
          /\ \A a \in ActorIds \ zone_log'[1].invoked :
                 /\ status_effects'[a] = status_effects[a]
                 /\ ai'[a] = ai[a]
                 /\ hp'[a] = hp[a]
          /\ Player \notin zone_log'[1].invoked =>
                 player_confused_turns' = player_confused_turns]_vars

\* A zone has been ticked on a cell where a corpse lies.
C19_Witness ==
    /\ op.handler = "zone_turn"
    /\ Len(zone_log) = 1
    /\ \E c \in ActorIds \cap entities :
          /\ ai[c] = NoAI
          /\ pos[c] = zone_log[1].cell
          /\ c \notin zone_log[1].invoked

\* Two cells are the same or neighbours in one of the eight directions.
Near(c1, c2) == Abs(c1[1] - c2[1]) <= 1 /\ Abs(c1[2] - c2[2]) <= 1

\* The zones of the map but z.
OtherZones(z) == (ZoneIds \cap entities) \ {z}

\* C20: in its tick a zone that moves around goes at most one cell in one
\* of the eight directions, and only onto a walkable cell of the map that
\* holds no other zone; a zone that does not move around stays, and no step
\* moves a zone but its own tick.  Zones that start on cells of their own
\* are therefore never two in a cell.
C20_ZonesDriftApart ==
    /\ [](\A z1, z2 \in ZoneIds \cap entities : pos[z1] = pos[z2] => z1 = z2)
    /\ [][/\ \A z \in ZoneIds \cap entities \cap entities' :
                pos'[z] # pos[z] =>
                    /\ op'.handler = "zone_turn"
                    /\ op'.entity = z
                    /\ moves_around[z]
          /\ op'.handler = "zone_turn" =>
                /\ Len(zone_log') = 1
                /\ zone_log'[1].from = pos[op'.entity]
                /\ op'.entity \in entities' =>
                       zone_log'[1].cell = pos'[op'.entity]
                /\ Near(zone_log'[1].from, zone_log'[1].cell)
                /\ zone_log'[1].cell # zone_log'[1].from =>
                       /\ moves_around[op'.entity]
                       /\ zone_log'[1].cell \in Cells \ Walls
                       /\ \A z \in OtherZones(op'.entity) :
                              pos[z] # zone_log'[1].cell]_vars

\* A gas has drifted to another cell from beside another zone.
C20_Witness ==
    /\ op.handler = "zone_turn"
    /\ Len(zone_log) = 1
    /\ zone_log[1].cell # zone_log[1].from
    /\ \E z \in OtherZones(op.entity) : Near(pos[z], zone_log[1].from)

\* The enemy whose turn the next step is has a SpawnerEnemy that is set up,
\* stands in the player's sight and is due to spawn.
SpawnerDue(e) ==
    /\ ai[e].cls = "SpawnerEnemy"
    /\ ai[e].is_setup
    /\ pos[e] \in visible
    /\ ai[e].spawn_timer >= ai[e].spawn_rate

\* C21: the turn of a visible spawner whose timer has reached its rate
\* either adds exactly one copy of its template, on a cell of the map within
\* 3 of the spawner in each coordinate that no blocking entity held, or
\* adds no entity and leaves the spawner where it is.
C21_SpawnsOnFreeCell ==
    [][(op'.handler = "enemy_turn" /\ SpawnerDue(op'.entity)) =>
          \/ /\ entities' \cap ActorIds = entities \cap ActorIds
             /\ pos'[op'.entity] = pos[op'.entity]
          \/ \E n \in ActorIds \ entities :
                /\ entities' \cap ActorIds = (entities \cap ActorIds) \cup {n}
                /\ template'[n] = ai[op'.entity].spawned_entity
                /\ Abs(pos'[n][1] - pos[op'.entity][1]) <= SpawnReach
                /\ Abs(pos'[n][2] - pos[op'.entity][2]) <= SpawnReach
                /\ pos'[n] \in Cells
                /\ ~\E b \in entities : blocks_movement[b] /\ pos[b] = pos'[n]]_vars

\* C22: the turn of a spawner that has not been set up, or that stands out
\* of the player's sight, is a wait: the map keeps its entities, the spawner
\* its cell, and its AI its timer, its flee position and all the rest.
C22_InertSpawnerWaits ==
    [][(/\ op'.handler = "enemy_turn"
        /\ ai[op'.entity].cls = "SpawnerEnemy"
        /\ ~ai[op'.entity].is_setup \/ pos[op'.entity] \notin visible) =>
          /\ entities' \cap ActorIds = entities \cap ActorIds
          /\ pos' = pos
          /\ ai' = ai
          /\ last_position' = [last_position EXCEPT ![op'.entity] = pos[op'.entity]]
          /\ hp' = hp
          /\ message_log' = <<>>]_vars

\* A spawner that is set up and due has waited out of the player's sight.
C22_Witness ==
    /\ op.handler = "enemy_turn"
    /\ ai[op.entity].cls = "SpawnerEnemy"
    /\ ai[op.entity].is_setup
    /\ ai[op.entity].spawn_timer >= ai[op.entity].spawn_rate
    /\ pos[op.entity] \notin visible

\* The spawner e is set up, in sight and closer than FleeTrigger to the player.
SpawnerNear(e) ==
    /\ ai[e].cls = "SpawnerEnemy"
    /\ ai[e].is_setup
    /\ pos[e] \in visible
    /\ (pos[Player][1] - pos[e][1]) * (pos[Player][1] - pos[e][1])
       + (pos[Player][2] - pos[e][2]) * (pos[Player][2] - pos[e][2])
       < FleeTrigger * FleeTrigger

\* The first cells of the least-cost paths that lead e from its cell c to dest
\* on the map w.
FirstSteps(w, e, c, dest) ==
    {Head(p) : p \in get_path_to([w EXCEPT !.pos[e] = c], e, dest) \ {<<>>}}

\* C23: a spawner in sight and near the player that has no flee position (or
\* stands on the one it had) picks a cell of the map that is walkable and held
\* by no blocking entity, unless its turn ended in the wait of a failed spawn;
\* a spawner in sight moves at most one cell in its turn, onto the first cell
\* of a least-cost path to its flee position; and a spawner in sight that
\* stands on its flee position gives that position up.
C23_FleesToFreeCell ==
    [][(op'.handler = "enemy_turn" /\ ai[op'.entity].cls = "SpawnerEnemy") =>
          LET e == op'.entity
              f == ai'[e].flee_position
          IN  /\ (SpawnerNear(e) /\ ai[e].flee_position \in {<<>>, pos[e]}) =>
                    \/ f = <<>> /\ SpawnerDue(e) /\ pos'[e] = pos[e]
                    \/ /\ f \in Cells
                       /\ walkable(f)
                       /\ ~\E b \in entities : blocks_movement[b] /\ pos[b] = f
                       /\ ~\E b \in entities' \ {e} :
                              blocks_movement'[b] /\ pos'[b] = f
              /\ Chebyshev(pos'[e], pos[e]) <= 1
              /\ pos'[e] # pos[e] =>
                    /\ f # <<>>
                    /\ pos'[e] \in FirstSteps(World', e, pos[e], f)
              /\ (ai[e].is_setup /\ pos[e] \in visible
                  /\ ai[e].flee_position = pos[e]) => f # pos[e]
              /\ (ai[e].flee_position \notin {<<>>, pos[e]}) =>
                    f = ai[e].flee_position]_vars

\* A spawner in sight has moved onto the flee position it picked and is about
\* to take its next turn there.
C23_Witness ==
    /\ pc = "enemy_turns"
    /\ \E e \in pending :
          /\ ai[e].cls = "SpawnerEnemy"
          /\ ai[e].is_setup
          /\ pos[e] \in visible
          /\ ai[e].flee_position = pos[e]
          /\ last_position[e] # pos[e]

\* C24: a hostile actor that takes its turn in sight and at Chebyshev distance
\* 1 or less from the living player attacks the player and nobody else and
\* stays on its cell; one further than 1 from the player attacks nobody.
C24_HostileAttacksAdjacentPlayer ==
    [][(op'.handler = "enemy_turn" /\ ai[op'.entity].cls = "HostileEnemy") =>
          LET e == op'.entity
          IN  /\ (/\ pos[e] \in visible
                  /\ ai[Player] # NoAI
                  /\ Chebyshev(pos[e], pos[Player]) <= 1) =>
                    /\ MeleeTargets(message_log', e) = {Player}
                    /\ pos'[e] = pos[e]
              /\ Chebyshev(pos[e], pos[Player]) > 1 =>
                    MeleeTargets(message_log', e) = {}]_vars

\* C25: a turn of a ConfusedEnemy whose countdown is above 0 takes 1 from the
\* countdown and is one bump to a neighbouring cell: a move onto it, an attack
\* on an actor there, or a rejected bump that changes nothing else; a turn of
\* a ConfusedEnemy whose countdown is 0 or less bumps nothing, makes the AI it
\* wrapped the actor's AI as it was, and logs one message.  So a countdown of
\* n gives n bumps and then the restoring turn.
C25_ConfusionCountsDown ==
    [][(op'.handler = "enemy_turn" /\ ai[op'.entity].cls = "ConfusedEnemy") =>
          LET e == op'.entity
              step == <<pos'[e][1] - pos[e][1], pos'[e][2] - pos[e][2]>>
          IN  /\ ai[e].turns_remaining > 0 =>
                    /\ ai'[e] = [ai[e] EXCEPT !.turns_remaining = @ - 1]
                    /\ \/ /\ step \in Directions
                          /\ ~op'.raised
                          /\ last_position'[e] = pos[e]
                          /\ message_log' = <<>>
                       \/ /\ step = <<0, 0>>
                          /\ ~op'.raised
                          /\ last_position'[e] = pos[e]
                          /\ Cardinality(MeleeTargets(message_log', e)) = 1
                          /\ \A t \in MeleeTargets(message_log', e) :
                                Chebyshev(pos[t], pos[e]) = 1
                       \/ /\ step = <<0, 0>>
                          /\ op'.raised
                          /\ last_position' = last_position
                          /\ message_log' = <<>>
                          /\ hp' = hp
                          /\ status_effects' = status_effects
              /\ ai[e].turns_remaining <= 0 =>
                    /\ ai'[e] = ai[e].previous_ai
                    /\ message_log' = <<<<"no longer confused", e>>>>
                    /\ ~op'.raised
                    /\ pos' = pos
                    /\ hp' = hp
                    /\ last_position' = last_position]_vars

\* A confusion of MaxConfusedTurns turns has run out in as many turns and the
\* next turn has given the actor its hostile AI back, path and all.
C25_Witness ==
    /\ op.handler = "enemy_turn"
    /\ op.entity = "a1"
    /\ turns = MaxConfusedTurns
    /\ ai["a1"] = HostileEnemy(<<<<0, 1>>>>)
    /\ message_log = <<<<"no longer confused", "a1">>>>

\* The cells a walk from the cells seen can stand on.
RECURSIVE ReachIn(_, _, _)
ReachIn(cells, cost, seen) ==
    LET more == seen \cup {c \in UNION {NeighboursIn(cells, m) : m \in seen} :
                               cost[c] > 0}
    IN  IF more = seen THEN seen ELSE ReachIn(cells, cost, more)

\* The cost of a walk: every step costs the cost of the cell stepped on, twice
\* for a step along a row or a column and three times for a diagonal one.
RECURSIVE WalkCost(_, _)
WalkCost(cost, walk) ==
    IF Len(walk) <= 1 THEN 0
    ELSE LET a == walk[Len(walk) - 1]
             b == walk[Len(walk)]
         IN  WalkCost(cost, SubSeq(walk, 1, Len(walk) - 1))
             + cost[b] * (IF a[1] # b[1] /\ a[2] # b[2] THEN 3 ELSE 2)

\* C26: the path get_path_to returns is a walk from a neighbour of the actor's
\* cell to the destination over cells of the map that are not walls, each
\* next to the one before, the actor's cell not among them; no walk to the
\* destination costs less (the least costs d are a lower bound of every
\* walk's cost, and the path costs d[dest]); the path is empty when no walk
\* leads to the destination, and only then or when the actor stands on it.
\* On a bare map of 5 by 5 cells the path from (0, 0) to (4, 4) has 4 cells.
C26_PathIsLeastCost ==
    op.handler = "get_path_to" =>
        LET cells == Grid(op.width)
            cost == cost_array(cells, op.walls, Crowd(cells, op.root, op.others))
            path == op.path
            walk == <<op.root>> \o path
            far == UnreachedIn(cells)
        IN  /\ \A i \in 1 .. Len(path) :
                  /\ path[i] \in cells
                  /\ path[i] \notin op.walls
                  /\ path[i] # op.root
                  /\ Chebyshev(walk[i], walk[i + 1]) = 1
            /\ path # <<>> => path[Len(path)] = op.dest
            /\ \A reach \in {ReachIn(cells, cost, {op.root})} :
               \A d \in {DistancesIn(cells, cost,
                                     [c \in cells |-> IF c = op.root THEN 0 ELSE far])} :
                  /\ path = <<>> <=> (op.dest = op.root \/ op.dest \notin reach)
                  /\ d[op.root] = 0
                  /\ \A c \in reach : \A m \in reach :
                        (Abs(m[1] - c[1]) <= 1 /\ Abs(m[2] - c[2]) <= 1
                         /\ m # c /\ cost[c] > 0) =>
                            d[c] <= d[m] + cost[c] * (IF m[1] # c[1] /\ m[2] # c[2]
                                                      THEN 3 ELSE 2)
                  /\ path # <<>> => WalkCost(cost, walk) = d[op.dest]
            /\ (/\ op.width = 5
                /\ op.walls = {}
                /\ op.others = {}
                /\ op.root = <<0, 0>>
                /\ op.dest = <<4, 4>>) => Len(path) = 4

\* The path across the bare map of 5 by 5 cells.
C26_Witness ==
    /\ op.handler = "get_path_to"
    /\ op.width = 5
    /\ op.walls = {}
    /\ op.others = {}
    /\ op.root = <<0, 0>>
    /\ op.dest = <<4, 4>>
    /\ op.path = <<<<1, 1>>, <<2, 2>>, <<3, 3>>, <<4, 4>>>>

\* C27: after a melee attack that lowers the hit points of its target, the
\* target's last_actor_hurt_by is the internal name of the attacker.
C27_LastDamagerIsAttacker ==
    [][\A m \in MeleeLogged(message_log', "attacks") :
          hp'[m[3]] < hp[m[3]] =>
              last_actor_hurt_by'[m[3]] = template[m[2]]]_vars

\* The outcomes of the death of e had its last_actor_hurt_by been by and its
\* is_swarm been swarm.
DeathsOf(e, by, swarm) ==
    die([World EXCEPT !.last_actor_hurt_by[e] = by, !.is_swarm[e] = swarm], e)

\* C28: a step changes the player's XP or credits only by the death of a
\* combatant that is no swarm spawn and whose last_actor_hurt_by names the
\* player; and die, whatever the two fields are, gives the XP of the dead and
\* either nothing more or max_hp // 4 credits when the combatant is no swarm
\* spawn and was last hurt by the player, and leaves XP and credits alone
\* otherwise.
C28_RewardOnlyForPlayersKill ==
    /\ [](ai["a1"] # NoAI =>
            \A by \in {"", "player", template["a1"]}, swarm \in BOOLEAN :
                \A deaths \in {DeathsOf("a1", by, swarm)} :
                    {<<w.current_xp, w.credits>> : w \in deaths} =
                        IF by = template[Player] /\ ~swarm
                        THEN {<<current_xp + xp_given(template["a1"]), credits + c>>
                              : c \in {0, max_hp["a1"] \div 4}}
                        ELSE {<<current_xp, credits>>})
    /\ [][(current_xp' # current_xp \/ credits' # credits) =>
             \E e \in entities :
                 /\ e \in {died'[i] : i \in 1 .. Len(died')}
                 /\ last_actor_hurt_by[e] = template[Player]
                 /\ ~is_swarm[e]]_vars

\* A combatant that the player did not hurt last has died and has left the
\* player's XP and credits as they were.
C28_Witness ==
    /\ died # <<>>
    /\ last_actor_hurt_by[died[Len(died)]] # template[Player]
    /\ ai[died[Len(died)]] = NoAI
    /\ current_xp = 0
    /\ credits = 0

\* The actors that have died.
Dead == {e \in entities \cap ActorIds : ai[e] = NoAI}

\* C29: die leaves its owner without an AI, not blocking movement and with no
\* status effect; the step of a death leaves the dead without an AI and not
\* blocking; and no step gives an AI back to, or makes block again, an actor
\* that has none.
C29_DeathIsFinal ==
    /\ [](\A e \in actors(World) : \A w \in die(World, e) :
             /\ w.ai[e] = NoAI
             /\ ~w.blocks_movement[e]
             /\ w.status_effects[e] = <<>>)
    /\ [][\A e \in entities \cap ActorIds :
             (ai[e] = NoAI \/ e \in {died'[i] : i \in 1 .. Len(died')}) =>
                 /\ ai'[e] = NoAI
                 /\ ~blocks_movement'[e]
                 /\ e \in entities']_vars

\* A zone of nitrous oxide has ticked on the cell where a corpse lies.
C29_Witness ==
    /\ op.handler = "zone_turn"
    /\ zone_log # <<>>
    /\ zone_log[Len(zone_log)].zone = op.entity
    /\ \E e \in Dead :
          /\ pos[e] = zone_log[Len(zone_log)].cell
          /\ ai[e] = NoAI
          /\ ~blocks_movement[e]
    /\ template[op.entity] = "nitrous_oxide_gas"

\* C30: a pickup by the player with no item on the player's cell, or with as
\* many items in the inventory as its capacity, is rejected and leaves the
\* entities of the map and every inventory as they were; any other pickup
\* takes one item of the player's cell off the map and puts it last in the
\* player's inventory; no inventory ever holds more than its capacity.
C30_PickupOrImpossible ==
    /\ [](\A e \in entities : Len(inventory[e]) <= capacity(template[e]))
    /\ [][(/\ op'.handler = "handle_events"
           /\ op'.key.key = "pickup"
           /\ player_confused_turns = 0) =>
             LET here == {i \in entities \cap ItemIds : pos[i] = pos[Player]}
             IN  IF here = {} \/ Len(inventory[Player]) >= 26
                 THEN /\ message_log' = <<<<"impossible">>>>
                      /\ entities' = entities
                      /\ inventory' = inventory
                      /\ pc' = "input"
                 ELSE \E i \in here :
                         /\ entities' = entities \ {i}
                         /\ inventory' =
                                [inventory EXCEPT ![Player] = Append(@, i)]
                         /\ Len(inventory'[Player]) <= 26]_vars

\* The pickup that filled the inventory.
C30_Witness ==
    /\ op.handler = "handle_events"
    /\ op.key.key = "pickup"
    /\ Len(inventory[Player]) = capacity("player")
    /\ inventory[Player][capacity("player")] = "i1"
    /\ "i1" \notin entities

\* C31: a zone tick invokes the zone's component on the living combatants
\* with hit points that stand in the cell the zone held before the move of
\* that tick, and on nobody else.
C31_EffectBeforeMove ==
    [][op'.handler = "zone_turn" =>
          zone_log'[1].invoked =
              {a \in ActorIds \cap entities :
                  ai[a] # NoAI /\ hp[a] > 0 /\ pos[a] = pos[op'.entity]}]_vars

\* C32: while the for statement of handle_zones has zones left to visit, the
\* zones visited so far whose duration is spent are listed and still on the
\* map, and a zone tick takes no entity off the map; the tick of the last
\* zone takes off the map the listed zones and, if its duration is spent,
\* the last zone itself, and no other entity.
C32_ZonesRemovedAfterThePass ==
    /\ [](pc = "zones" =>
            /\ {zones_to_remove[i] : i \in 1 .. Len(zones_to_remove)} =
                   {z \in (entities \cap ZoneIds) \ pending :
                       ~is_permanent[z] /\ duration[z] <= 0}
            /\ \A i, j \in 1 .. Len(zones_to_remove) :
                   zones_to_remove[i] = zones_to_remove[j] => i = j)
    /\ [][op'.handler = "zone_turn" =>
             LET z == op'.entity
                 spent == {zones_to_remove[i] : i \in 1 .. Len(zones_to_remove)}
                              \cup (IF ~is_permanent[z] /\ duration[z] - 1 <= 0
                                    THEN {z} ELSE {})
             IN  /\ entities' \subseteq entities
                 /\ IF pending \ {z} # {}
                    THEN entities' = entities
                    ELSE entities \ entities' = spent]_vars

\* A zone whose duration is spent has been visited and is still on the map
\* while another zone waits for its tick.
C32_Witness ==
    /\ op.handler = "zone_turn"
    /\ pc = "zones"
    /\ pending # {}
    /\ zones_to_remove = <<op.entity>>
    /\ op.entity \in entities
    /\ duration[op.entity] <= 0

\* C33: the spawn attempt of a spawner whose timer is due draws at most 10
\* cells, however the draws fall; the turn of an attempt that adds no entity
\* leaves the timer at 0 and the spawner on its cell.
C33_AtMostTenSamples ==
    [][(op'.handler = "enemy_turn" /\ SpawnerDue(op'.entity)) =>
          /\ \A r \in SpawnDraws(World, op'.entity, 0, 1) : r.draws <= 10
          /\ entities' \cap ActorIds = entities \cap ActorIds =>
                /\ ai'[op'.entity].spawn_timer = 0
                /\ pos'[op'.entity] = pos[op'.entity]]_vars


\* C37: no step of a turn takes an actor further than one cell, in x and in
\* y, from the cell it stood on before the step.
C37_MovesByOneCell ==
    [][\A a \in ActorIds \cap entities :
          Chebyshev(pos[a], pos'[a]) <= 1]_vars


\* The turn of actor e, the HostileEnemy of the state before it, that is
\* under way in the step.
HostileTurn(e) ==
    /\ op'.handler = "enemy_turn"
    /\ op'.entity = e
    /\ ai[e].cls = "HostileEnemy"

\* Actor e has attacked the player in the step and has not left its cell.
Attacked(e) ==
    /\ message_log' # <<>>
    /\ message_log'[1] \in {<<"attacks", e, Player>>, <<"no damage", e, Player>>,
                            <<"dodges", e, Player>>}
    /\ pos' = pos

\* Actor e has taken the first cell off path and has issued the one Move to
\* it: it stands on that cell, or the move was refused and nothing has moved.
Stepped(e, path) ==
    /\ path # <<>>
    /\ ai'[e] = [ai[e] EXCEPT !.path = Tail(path)]
    /\ message_log' = <<>>
    /\ \/ ~op'.raised /\ pos' = [pos EXCEPT ![e] = Head(path)]
                      /\ last_position'[e] = pos[e]
       \/ op'.raised /\ pos' = pos /\ last_position' = last_position

\* Actor e, no cell in path, has waited.
Waited(e, path) ==
    /\ path = <<>>
    /\ ai'[e] = [ai[e] EXCEPT !.path = <<>>]
    /\ message_log' = <<>>
    /\ ~op'.raised
    /\ pos' = pos
    /\ last_position'[e] = pos[e]

\* C34: a HostileEnemy that is not both in sight and beside the player takes
\* a new path to the player when its cell is in sight and keeps the cached
\* one when it is not; it then takes the first cell off a path that has one
\* and issues one Move to it, or waits on an empty path; in sight and beside
\* the player it attacks; each turn is one of the three.
C34_HostileFollowsCachedPath ==
    [][\A e \in Enemies :
          HostileTurn(e) =>
              LET seen == pos[e] \in visible
                  near == Chebyshev(pos[e], pos[Player]) <= 1
              IN  IF seen /\ near
                  THEN Attacked(e)
                  ELSE LET paths == IF seen
                                    THEN get_path_to(World, e, pos[Player])
                                    ELSE {ai[e].path}
                       IN  \E path \in paths :
                              Stepped(e, path) \/ Waited(e, path)]_vars

\* An actor out of sight has taken the first cell off the path it had cached
\* and has moved to it, more cells left in the path.
C34_Witness ==
    /\ op.handler = "enemy_turn"
    /\ ~op.raised
    /\ ai[op.entity].cls = "HostileEnemy"
    /\ ai[op.entity].path # <<>>
    /\ last_position[op.entity] \notin visible
    /\ pos[op.entity] # last_position[op.entity]
    /\ Chebyshev(pos[op.entity], pos[Player]) > 1


\* The damage the on_tick of the effect of class c does to e in the step.
TickDamage(e, c) ==
    LET i == CHOOSE i \in 1 .. Len(status_effects[e]) :
                 status_effects[e][i].cls = c
    IN  IF c = "Bleeding" /\ last_position[e] = pos[e]
        THEN 0
        ELSE status_effects[e][i].value

\* The damage of the first k ticks of the sequence calls.
RECURSIVE DamageUpTo(_, _, _)
DamageUpTo(e, calls, k) ==
    IF k = 0 THEN 0
    ELSE DamageUpTo(e, calls, k - 1) + TickDamage(e, calls[k].cls)

\* The Spored effect of e has ticked in the step, and its own damage has
\* taken the hp of e from above 0 to 0.
LethalSporedTick(e) ==
    \E k \in 1 .. Len(ticked') :
        /\ ticked'[k].cls = "Spored"
        /\ LET before == Max(0, hp[e] - DamageUpTo(e, ticked', k - 1))
           IN  /\ before > 0
               /\ before - TickDamage(e, "Spored") <= 0

\* C35: the update of the status effects of an actor adds one baby shroom,
\* within one cell of the actor, when the tick of its Spored effect is the
\* one that takes its hp to 0, and adds no entity otherwise: not on a tick
\* that is not lethal, and not when the actor was dead before the tick.
C35_SporedSpawnsOnLethalTick ==
    [][op'.handler = "status_turn" =>
          LET e == op'.entity
              born == entities' \ entities
          IN  IF LethalSporedTick(e)
              THEN /\ Cardinality(born) = 1
                   /\ \A b \in born :
                         /\ template'[b] = "baby_shroom"
                         /\ Chebyshev(pos'[b], pos[e]) <= 1
              ELSE born = {}]_vars


\* C36: in the cost grid a cell that is not walkable costs 0, blocking
\* entities on it or not, and a walkable cell costs 1 and 10 more for each
\* blocking entity on it.
C36_CostGrid ==
    op.handler = "cost_array" =>
        \A c \in Grid(op.width) :
            op.cost[c] = IF c \in op.walls
                         THEN 0
                         ELSE 1 + CrowdingCost * op.crowd[c]


\* C38: in every state a combatant that has died, its AI gone, has no status
\* effect.
C38_DeadHaveNoEffects ==
    \A e \in entities \cap ActorIds :
        ai[e] = NoAI => status_effects[e] = <<>>


\* C39: in every state the entities that block movement stand on cells of
\* the map that are walkable, no two of them on one cell.
C39_BlockersApart ==
    \A e \in entities :
        blocks_movement[e] =>
            /\ is_walkable_tile(pos[e][1], pos[e][2])
            /\ \A f \in entities \ {e} : blocks_movement[f] => pos[f] # pos[e]


\* The actors whose AI is a ConfusedEnemy.
Confused == {e \in entities \cap ActorIds : ai[e].cls = "ConfusedEnemy"}

\* C40: a ConfusedEnemy never wraps another one and counts from 10 at most;
\* the tick of a zone leaves the AI of an actor that is confused already as
\* it is; the AI of a confused actor changes in the actor's own turns only,
\* and in each of them: one down while the countdown is above 0, back to the
\* previous AI at 0, so at the eleventh turn at the latest; an actor that a
\* gas with one or two turns left confused is back at its previous AI when
\* the player has taken 13 turns.
C40_ConfusionNeitherNestsNorRestarts ==
    /\ [](\A e \in Confused :
             /\ ai[e].previous_ai.cls # "ConfusedEnemy"
             /\ ai[e].turns_remaining \in 0 .. 10)
    /\ [](turns >= 13 => Confused = {})
    /\ [][\A e \in Confused :
             /\ op'.handler = "zone_turn" => ai'[e] = ai[e]
             /\ (op'.handler = "enemy_turn" /\ op'.entity = e) => ai'[e] # ai[e]
             /\ ai'[e] # ai[e] =>
                   /\ op'.handler = "enemy_turn"
                   /\ op'.entity = e
                   /\ \/ ai'[e] = NoAI
                      \/ /\ ai[e].turns_remaining > 0
                         /\ ai'[e] = [ai[e] EXCEPT !.turns_remaining = @ - 1]
                      \/ /\ ai[e].turns_remaining <= 0
                         /\ ai'[e] = ai[e].previous_ai]_vars

\* The component of a zone has been invoked on an actor that was some turns
\* into its confusion, and the actor is as confused as it was.
C40_Witness ==
    /\ op.handler = "zone_turn"
    /\ \E a \in zone_log[1].invoked :
          /\ a \in Confused
          /\ ai[a].turns_remaining < ConfusedTurns

====
